---- MODULE Spec2Model ----
(***************************************************************************)
(* A model of the schema-driven log storage of blksails/logs: the schema   *)
(* model and its validation (internal/models/schema.go), the YAML          *)
(* serialisation of schemas, the coercion of raw field values (api), the   *)
(* record validator and the batch insert of the storage drivers, the       *)
(* schema Manager that loads schema files into a backend and a cache, the  *)
(* log insertion of the API, and the drivers' schema metadata and tables.  *)
(*                                                                         *)
(* Each part has its own specification over the shared variables; a part's *)
(* specification leaves the variables of the other parts unchanged.        *)
(***************************************************************************)
EXTENDS Integers, Sequences, FiniteSets, TLC

VARIABLES
    pc,         \* which operation was last applied to `schema`
    schema,     \* the models.Schema value under construction / in the request body
    verr,       \* the error returned by the last Schema.Validate (or by the API handler)
    stored,     \* schemas the API handlers handed to storage.CreateSchema/UpdateSchema
    yamlDoc,    \* the YAML document produced by ToYAML or edited by hand
    fromYaml,   \* the result of SchemaFromYAML(yamlDoc)
    raw,        \* the raw value handed to convertFieldValue
    ftype,      \* the field type it is converted to
    conv1,      \* the result of convertFieldValue(raw, ftype)
    conv2,      \* the result of converting conv1's value again
    driver,     \* the storage driver in use: "postgres", "mysql" or "clickhouse"
    dbSchemas,  \* the rows of the backend's schemas table
    logTable,   \* the committed rows of the physical log table
    call,       \* the last storage call: its arguments, inputs and returned error
    mgrState,   \* the Manager: "Uninitialized", "Running" or "Stopped"
    files,      \* the watched directory: the content of each file
    events,     \* the fsnotify events not yet received by watchChanges
    cache,      \* Manager.schemas, keyed by "project:table"
    load,       \* the loadSchema call of the watch goroutine: its stage and result
    fsOps,      \* the number of file operations so far
    scanReported, \* the files the initial scan printed "Failed to load schema" for
    clock,      \* the reading of time.Now(), in milliseconds
    meta,       \* the rows of the schemas table with their timestamps, oldest first
    tables,     \* the physical log tables: the columns each was created with
    writes      \* the schemas CreateSchema/UpdateSchema accepted, oldest first

schemaVars == <<schema, verr, stored, yamlDoc, fromYaml>>

coerceVars == <<raw, ftype, conv1, conv2>>

storeVars == <<driver, dbSchemas, logTable, call>>

mgrVars == <<mgrState, files, events, cache, load, fsOps, scanReported>>

metaVars == <<clock, meta, tables, writes>>

vars == <<pc, schemaVars, coerceVars, storeVars, mgrVars, metaVars>>

(***************************************************************************)
(* Errors.  A Go error is modelled as the sequence of the parts of its     *)
(* message; nil is the empty sequence.                                     *)
(***************************************************************************)
NoError == <<>>

Unset == "unset"

(***************************************************************************)
(* Field types (schema.go:18-33).                                          *)
(***************************************************************************)
FieldTypeString == "string"

FieldTypeInt == "int"

FieldTypeFloat == "float"

FieldTypeBool == "bool"

FieldTypeDateTime == "datetime"

FieldTypeTime == "time"

FieldTypeDuration == "duration"

FieldTypeJSON == "json"

FieldTypeRest == "rest"

FieldTypeObject == "object"

FieldTypeArray == "array"

\* The field-type enumeration.
FieldTypes ==
    {FieldTypeString, FieldTypeInt, FieldTypeFloat, FieldTypeBool, FieldTypeDateTime,
     FieldTypeTime, FieldTypeDuration, FieldTypeJSON, FieldTypeRest,
     FieldTypeObject, FieldTypeArray}

\* The case list of validateField for types that need no further check.
BasicTypes ==
    {FieldTypeString, FieldTypeInt, FieldTypeFloat, FieldTypeBool, FieldTypeDateTime,
     FieldTypeTime, FieldTypeDuration, FieldTypeJSON, FieldTypeRest}

\* A variant of ArrayItemTypes: every type of the enumeration is a valid item type.
ArrayItemTypes_Enum == FieldTypes

\* The case list of validateField for the item types of an array field.
ArrayItemTypes ==
    {FieldTypeString, FieldTypeInt, FieldTypeFloat, FieldTypeBool, FieldTypeDateTime,
     FieldTypeObject, FieldTypeJSON, FieldTypeRest}

\* The case list of SchemaFromYAML for the types a YAML field may have.
YAMLFieldTypes ==
    {FieldTypeString, FieldTypeInt, FieldTypeFloat, FieldTypeBool,
     FieldTypeDateTime, FieldTypeJSON, FieldTypeTime, FieldTypeDuration}

(***************************************************************************)
(* models.Field and models.Schema.  Of Field the model keeps the members   *)
(* that Validate, ToYAML, SchemaFromYAML and the drivers read: Name, Type, *)
(* Required, Indexed, Fields (sub-fields) and ItemType.                    *)
(***************************************************************************)
Field(n, t, req, idx, subs, item) ==
    [name |-> n, type |-> t, required |-> req, indexed |-> idx,
     fields |-> subs, item_type |-> item]

Schema(p, t, d, fs) ==
    [project |-> p, table |-> t, description |-> d, fields |-> fs]

(***************************************************************************)
(* Schema.Validate and validateField (schema.go:531-595).                  *)
(* validateField returns the error and the updated fieldNames map.         *)
(***************************************************************************)
RECURSIVE validateField(_, _)
RECURSIVE validateFieldList(_, _, _)

\* The loop "for _, f := range fields { if err := validateField(f, names) ... }":
\* the first error ends it.  wrap is the name of the enclosing object field, or
\* "" for the loop of Schema.Validate, which returns the error as it is.
validateFieldList(fields, fieldNames, wrap) ==
    IF fields = <<>> THEN NoError
    ELSE LET r == validateField(Head(fields), fieldNames) IN
         IF r.err # NoError
         THEN IF wrap = "" THEN r.err ELSE <<"in field", wrap>> \o r.err
         ELSE validateFieldList(Tail(fields), r.fieldNames, wrap)

validateField(field, fieldNames) ==
    IF field.name = ""
    THEN [err |-> <<"field name is required">>, fieldNames |-> fieldNames]
    ELSE IF field.name \in fieldNames
    THEN [err |-> <<"duplicate field name", field.name>>, fieldNames |-> fieldNames]
    ELSE LET names == fieldNames \cup {field.name}
             res(e) == [err |-> e, fieldNames |-> names]
         IN  CASE field.type \in BasicTypes -> res(NoError)
               [] field.type = FieldTypeObject ->
                    IF Len(field.fields) = 0
                    THEN res(<<"object field must have sub-fields", field.name>>)
                    ELSE res(validateFieldList(field.fields, {}, field.name))
               [] field.type = FieldTypeArray ->
                    IF field.item_type = ""
                    THEN res(<<"array field must specify item_type", field.name>>)
                    ELSE IF field.item_type \in ArrayItemTypes
                    THEN res(NoError)
                    ELSE res(<<"invalid array item type", field.name, field.item_type>>)
               [] OTHER -> res(<<"invalid field type", field.name, field.type>>)

Validate(s) ==
    IF s.project = "" THEN <<"project name is required">>
    ELSE IF s.table = "" THEN <<"table name is required">>
    ELSE IF Len(s.fields) = 0 THEN <<"at least one field is required">>
    ELSE validateFieldList(s.fields, {}, "")

(***************************************************************************)
(* YAML serialisation (schema.go:272-347).  A YAML document is modelled as *)
(* the mapping it denotes: a function from the keys present in the         *)
(* document to their values.  yaml.Marshal writes every member of          *)
(* YAMLSchema/YAMLField and leaves out an `omitempty` member that is       *)
(* empty; yaml.Unmarshal gives a member whose key is absent its zero       *)
(* value.  Scalars survive the round trip through text unchanged (yaml.v3  *)
(* quotes a string that would read back as another type).                  *)
(***************************************************************************)
\* The value of key k in mapping doc, or the zero value when k is absent.
YAMLGet(doc, k, zero) == IF k \in DOMAIN doc THEN doc[k] ELSE zero

\* yaml.Marshal of a YAMLField (the model's fields have no description, so the
\* omitempty key `description` is never written).
MarshalYAMLField(f) ==
    [name |-> f.name, type |-> f.type, required |-> f.required, indexed |-> f.indexed]

\* Schema.ToYAML: copy project, table, description and, per field, name, type,
\* required and indexed into a YAMLSchema, then yaml.Marshal.
ToYAML(s) ==
    LET base == [project |-> s.project, table |-> s.table,
                 fields |-> [i \in 1..Len(s.fields) |-> MarshalYAMLField(s.fields[i])]]
    IN  IF s.description = "" THEN base ELSE ("description" :> s.description) @@ base

RECURSIVE FromYAMLFields(_, _)
\* The loop of SchemaFromYAML over yamlSchema.Fields: acc is schema.Fields so far.
FromYAMLFields(yfs, acc) ==
    IF yfs = <<>> THEN [err |-> NoError, fields |-> acc]
    ELSE LET yf == Head(yfs)
             n  == YAMLGet(yf, "name", "")
             t  == YAMLGet(yf, "type", "")
         IN  IF t \notin YAMLFieldTypes
             THEN [err |-> <<"invalid field type", n, t>>, fields |-> <<>>]
             ELSE FromYAMLFields(Tail(yfs),
                      Append(acc, Field(n, t, YAMLGet(yf, "required", FALSE),
                                        YAMLGet(yf, "indexed", FALSE), <<>>, "")))

\* SchemaFromYAML: unmarshal into YAMLSchema, then build the Schema field by field.
SchemaFromYAML(doc) ==
    LET r == FromYAMLFields(YAMLGet(doc, "fields", <<>>), <<>>) IN
    IF r.err # NoError
    THEN [err |-> r.err, schema |-> Unset]
    ELSE [err |-> NoError,
          schema |-> Schema(YAMLGet(doc, "project", ""), YAMLGet(doc, "table", ""),
                            YAMLGet(doc, "description", ""), r.fields)]

\* The variables of the coercion part, in a specification that does not use them.
CoerceIdle == raw = Unset /\ ftype = Unset /\ conv1 = Unset /\ conv2 = Unset

\* The variables of the storage part, in a specification that does not use them.
StoreIdle == driver = Unset /\ dbSchemas = {} /\ logTable = <<>> /\ call = Unset

\* The variables of the Manager part, in a specification that does not use them.
MgrIdle ==
    /\ mgrState = Unset
    /\ files = Unset
    /\ events = <<>>
    /\ cache = Unset
    /\ load = Unset
    /\ fsOps = 0
    /\ scanReported = {}

\* The variables of the schema-metadata part, in a specification that does not use them.
MetaIdle == clock = 0 /\ meta = <<>> /\ tables = <<>> /\ writes = <<>>

(***************************************************************************)
(* The schemas the checks run over.                                        *)
(***************************************************************************)
\* The most top-level fields a generated schema has.
MaxFields == 2

Projects == {"", "p"}

Tables == {"", "t"}

\* The :project path parameter of PUT /schemas/:project/:table.
PathProjects == {"p", "q"}

LeafField(n, t) == Field(n, t, FALSE, FALSE, <<>>, "")

\* Sub-field lists of generated object fields: none, one, two with distinct and
\* with equal names, an unnamed one, one of a type outside the enumeration, a
\* nested object with and without sub-fields of its own, a nested array.
SubFieldLists ==
    {<<>>,
     <<LeafField("x", FieldTypeString)>>,
     <<LeafField("x", FieldTypeString), LeafField("y", FieldTypeRest)>>,
     <<LeafField("x", FieldTypeString), LeafField("x", FieldTypeInt)>>,
     <<LeafField("", FieldTypeString)>>,
     <<LeafField("x", "bogus")>>,
     <<Field("x", FieldTypeObject, FALSE, FALSE, <<LeafField("a", FieldTypeInt)>>, "")>>,
     <<LeafField("x", FieldTypeObject)>>,
     <<Field("x", FieldTypeArray, FALSE, FALSE, <<>>, FieldTypeTime)>>}

\* The fields Schema.Validate is run over.
ValidateFieldUniverse ==
    {LeafField("a", t) : t \in BasicTypes \cup {"bogus"}}
    \cup {LeafField("b", FieldTypeString), LeafField("b", FieldTypeRest),
          LeafField("", FieldTypeString)}
    \cup {Field("a", FieldTypeArray, FALSE, FALSE, <<>>, it) :
            it \in FieldTypes \cup {"", "bogus"}}
    \cup {Field("a", FieldTypeObject, FALSE, FALSE, subs, "") : subs \in SubFieldLists}

\* The fields the YAML round trip is run over.
YAMLFieldUniverse ==
    {Field(n, t, rq[1], rq[2], <<>>, "") :
        n \in {"a", "b"},
        t \in {FieldTypeString, FieldTypeDuration, FieldTypeRest, "bogus"},
        rq \in {<<FALSE, FALSE>>, <<TRUE, FALSE>>, <<FALSE, TRUE>>}}
    \cup {Field("a", FieldTypeObject, TRUE, FALSE, <<LeafField("x", FieldTypeString)>>, ""),
          Field("b", FieldTypeArray, FALSE, TRUE, <<>>, FieldTypeString)}

(***************************************************************************)
(* Operations on a schema.                                                 *)
(***************************************************************************)
\* A caller builds the schema: one more field from universe U.
AddFieldFrom(U) ==
    /\ pc = "build"
    /\ Len(schema.fields) < MaxFields
    /\ \E f \in U : schema' = [schema EXCEPT !.fields = Append(@, f)]
    /\ UNCHANGED <<pc, verr, stored, yamlDoc, fromYaml, coerceVars, storeVars, mgrVars, metaVars>>

\* schema.Validate() is called.
ValidateSchema ==
    /\ pc = "build"
    /\ verr' = Validate(schema)
    /\ pc' = "validated"
    /\ UNCHANGED <<schema, stored, yamlDoc, fromYaml, coerceVars, storeVars, mgrVars, metaVars>>

\* Server.createSchema: bind the body, validate, storage.CreateSchema.
\* ok: whether the backend call succeeds.
createSchema ==
    /\ pc = "build"
    /\ pc' = "created"
    /\ LET err == Validate(schema) IN
       IF err # NoError
       THEN verr' = err /\ stored' = stored
       ELSE \E ok \in BOOLEAN :
               IF ok THEN verr' = NoError /\ stored' = stored \cup {schema}
                     ELSE verr' = <<"storage error">> /\ stored' = stored
    /\ UNCHANGED <<schema, yamlDoc, fromYaml, coerceVars, storeVars, mgrVars, metaVars>>

\* Server.updateSchema: the path parameters must match the body, then as
\* createSchema with storage.UpdateSchema.
updateSchema ==
    /\ pc = "build"
    /\ pc' = "updated"
    /\ \E project \in PathProjects, table \in Tables \ {""} :
          IF schema.project # project \/ schema.table # table
          THEN verr' = <<"project and table in path must match body">> /\ stored' = stored
          ELSE LET err == Validate(schema) IN
               IF err # NoError
               THEN verr' = err /\ stored' = stored
               ELSE \E ok \in BOOLEAN :
                       IF ok THEN verr' = NoError /\ stored' = stored \cup {schema}
                             ELSE verr' = <<"storage error">> /\ stored' = stored
    /\ UNCHANGED <<schema, yamlDoc, fromYaml, coerceVars, storeVars, mgrVars, metaVars>>

\* schema.ToYAML() is called.
ToYAMLCall ==
    /\ pc = "build"
    /\ yamlDoc' = ToYAML(schema)
    /\ pc' = "yaml"
    /\ UNCHANGED <<schema, verr, stored, fromYaml, coerceVars, storeVars, mgrVars, metaVars>>

\* The document is edited by hand: a top-level key is removed.
EditYAML ==
    /\ pc = "yaml"
    /\ \E k \in DOMAIN yamlDoc :
          yamlDoc' = [j \in DOMAIN yamlDoc \ {k} |-> yamlDoc[j]]
    /\ pc' = "edited"
    /\ UNCHANGED <<schema, verr, stored, fromYaml, coerceVars, storeVars, mgrVars, metaVars>>

\* SchemaFromYAML(yamlDoc) is called.
SchemaFromYAMLCall ==
    /\ pc \in {"yaml", "edited"}
    /\ fromYaml' = SchemaFromYAML(yamlDoc)
    /\ pc' = "parsed"
    /\ UNCHANGED <<schema, verr, stored, yamlDoc, coerceVars, storeVars, mgrVars, metaVars>>

\* Validation of schemas, alone and in the API's create/update handlers.
InitValidate ==
    /\ pc = "build"
    /\ \E p \in Projects, t \in Tables : schema = Schema(p, t, "", <<>>)
    /\ verr = Unset
    /\ stored = {}
    /\ yamlDoc = Unset
    /\ fromYaml = Unset
    /\ CoerceIdle
    /\ StoreIdle
    /\ MgrIdle
    /\ MetaIdle

AddValidateField == AddFieldFrom(ValidateFieldUniverse)

NextValidate == AddValidateField \/ ValidateSchema \/ createSchema \/ updateSchema

SpecValidate == InitValidate /\ [][NextValidate]_vars

\* The YAML round trip.
InitYAML ==
    /\ pc = "build"
    /\ \E p \in Projects, t \in Tables, d \in {"", "d"} : schema = Schema(p, t, d, <<>>)
    /\ verr = Unset
    /\ stored = {}
    /\ yamlDoc = Unset
    /\ fromYaml = Unset
    /\ CoerceIdle
    /\ StoreIdle
    /\ MgrIdle
    /\ MetaIdle

AddYAMLField == AddFieldFrom(YAMLFieldUniverse)

NextYAML == AddYAMLField \/ ToYAMLCall \/ EditYAML \/ SchemaFromYAMLCall

SpecYAML == InitYAML /\ [][NextYAML]_vars

(***************************************************************************)
(* Claims about schema validation.                                         *)
(***************************************************************************)
RECURSIVE WellFormedFields(_, _)
\* The structural rules of a field list, stated on the list as a whole: names
\* non-empty and pairwise distinct, types in the enumeration, an object with at
\* least one sub-field (its sub-fields well formed in turn), an array with an
\* item type among itemTypes.
WellFormedFields(fs, itemTypes) ==
    /\ \A i \in 1..Len(fs) : fs[i].name # ""
    /\ \A i, j \in 1..Len(fs) : i # j => fs[i].name # fs[j].name
    /\ \A i \in 1..Len(fs) :
          /\ fs[i].type \in FieldTypes
          /\ fs[i].type = FieldTypeObject =>
                Len(fs[i].fields) >= 1 /\ WellFormedFields(fs[i].fields, itemTypes)
          /\ fs[i].type = FieldTypeArray => fs[i].item_type \in itemTypes

WellFormedSchema(s, itemTypes) ==
    /\ s.project # ""
    /\ s.table # ""
    /\ Len(s.fields) >= 1
    /\ WellFormedFields(s.fields, itemTypes)

\* C4 as stated: Validate succeeds iff project and table are non-empty, there is
\* at least one field, names are non-empty and unique per level, types are in the
\* enumeration, objects have sub-fields and every array's item_type is in the
\* field-type enumeration.
C4_ValidateIffWellFormed ==
    pc = "validated" => ((verr = NoError) <=> WellFormedSchema(schema, FieldTypes))

\* C4 amended: as C4, with an array's item_type among string, int, float, bool,
\* datetime, object, json and rest (not time, duration or array), and the rules
\* applied to sub-fields at every level.
C4_ValidateIffWellFormedAmended ==
    pc = "validated" =>
        ((verr = NoError) <=>
            WellFormedSchema(schema,
                {"string", "int", "float", "bool", "datetime", "object", "json", "rest"}))

\* C4's case: a schema with an array field was validated and accepted.
C4_Witness ==
    /\ pc = "validated"
    /\ verr = NoError
    /\ \E i \in 1..Len(schema.fields) :
          schema.fields[i].type = FieldTypeArray /\ schema.fields[i].item_type = FieldTypeObject

\* The number of top-level fields of the catch-all type.
RestCount(s) == Cardinality({i \in 1..Len(s.fields) : s.fields[i].type = FieldTypeRest})

\* C5: no schema with two or more catch-all fields is accepted by Validate, and
\* none is handed to the backend by the API's create/update handlers.
C5_AtMostOneRest ==
    /\ (pc = "validated" /\ verr = NoError) => RestCount(schema) <= 1
    /\ \A s \in stored : RestCount(s) <= 1

(***************************************************************************)
(* Claims about the YAML round trip.                                       *)
(***************************************************************************)
\* What the round trip is to preserve of a field.
FieldCore(f) == <<f.name, f.type, f.required, f.indexed>>

\* C6: for every schema S that Validate accepts, SchemaFromYAML(S.ToYAML())
\* succeeds and has S's project, table and description and S's fields in order,
\* each with equal name, type, required and indexed.
C6_RoundTrip ==
    (pc = "parsed" /\ yamlDoc = ToYAML(schema) /\ Validate(schema) = NoError) =>
        /\ fromYaml.err = NoError
        /\ fromYaml.schema.project = schema.project
        /\ fromYaml.schema.table = schema.table
        /\ fromYaml.schema.description = schema.description
        /\ Len(fromYaml.schema.fields) = Len(schema.fields)
        /\ \A i \in 1..Len(schema.fields) :
              FieldCore(fromYaml.schema.fields[i]) = FieldCore(schema.fields[i])

\* The fields of a document.
DocFields(doc) == YAMLGet(doc, "fields", <<>>)

\* C7: SchemaFromYAML rejects a document whose project is missing or empty
\* with "project name is required" (its field types being valid), and a
\* document with a field whose type is outside the enumeration with
\* "invalid field type".
C7_FromYAMLRejectsInvalid ==
    pc = "parsed" =>
        /\ (/\ YAMLGet(yamlDoc, "project", "") = ""
            /\ \A i \in 1..Len(DocFields(yamlDoc)) :
                  YAMLGet(DocFields(yamlDoc)[i], "type", "") \in FieldTypes)
              => (fromYaml.err # NoError /\ fromYaml.err[1] = "project name is required")
        /\ (\E i \in 1..Len(DocFields(yamlDoc)) :
                  YAMLGet(DocFields(yamlDoc)[i], "type", "") \notin FieldTypes)
              => (fromYaml.err # NoError /\ fromYaml.err[1] = "invalid field type")

(***************************************************************************)
(* Go strings are sequences of one-character strings, so that suffix       *)
(* tests, digit parsing and quoting are computed character by character.   *)
(***************************************************************************)
Digits == <<"0", "1", "2", "3", "4", "5", "6", "7", "8", "9">>

DigitChars == {Digits[i] : i \in 1..10}

DigitVal(c) == (CHOOSE i \in 1..10 : Digits[i] = c) - 1

RECURSIVE DigitsVal(_)
\* The number written by a sequence of digits (0 for the empty sequence).
DigitsVal(s) ==
    IF s = <<>> THEN 0
    ELSE DigitsVal(SubSeq(s, 1, Len(s) - 1)) * 10 + DigitVal(s[Len(s)])

IsDigits(s) == \A i \in 1..Len(s) : s[i] \in DigitChars

RECURSIVE Pow10(_)
Pow10(k) == IF k = 0 THEN 1 ELSE 10 * Pow10(k - 1)

Abs(n) == IF n < 0 THEN -n ELSE n

RECURSIVE NatToStr(_)
NatToStr(n) == IF n < 10 THEN <<Digits[n + 1]>> ELSE NatToStr(n \div 10) \o <<Digits[(n % 10) + 1]>>

\* strconv.Itoa / the %d verb.
IntToStr(n) == IF n < 0 THEN <<"-">> \o NatToStr(-n) ELSE NatToStr(n)

RECURSIVE PadLeft(_, _)
\* s padded with leading zeros to width w.
PadLeft(s, w) == IF Len(s) >= w THEN s ELSE PadLeft(<<"0">> \o s, w)

\* strings.HasSuffix
HasSuffix(s, suffix) ==
    /\ Len(s) >= Len(suffix)
    /\ SubSeq(s, Len(s) - Len(suffix) + 1, Len(s)) = suffix

\* strings.TrimSuffix
TrimSuffix(s, suffix) ==
    IF HasSuffix(s, suffix) THEN SubSeq(s, 1, Len(s) - Len(suffix)) ELSE s

\* The number of leading elements of s that belong to `chars`.
CountLeading(s, chars) ==
    LET stops == {i \in 1..Len(s) : s[i] \notin chars}
    IN  IF stops = {} THEN Len(s)
        ELSE (CHOOSE i \in stops : \A j \in stops : i <= j) - 1

(***************************************************************************)
(* strconv.ParseInt(s, 10, 64): an optional sign and one or more decimal   *)
(* digits.  The range error needs 19 digits and is out of reach of the     *)
(* strings considered here.                                                *)
(***************************************************************************)
ParseInt(s) ==
    LET signed == s # <<>> /\ s[1] \in {"+", "-"}
        digits == IF signed THEN Tail(s) ELSE s
    IN  IF digits = <<>> \/ ~IsDigits(digits)
        THEN [err |-> <<"strconv.ParseInt", "invalid syntax">>, v |-> 0]
        ELSE [err |-> NoError,
              v   |-> IF signed /\ s[1] = "-" THEN -DigitsVal(digits) ELSE DigitsVal(digits)]

(***************************************************************************)
(* A float64 is the decimal num * 10^-exp, kept normalised (no trailing    *)
(* zero in the fraction), which is exact for the decimals used here.       *)
(***************************************************************************)
RECURSIVE Float(_, _)
Float(num, exp) ==
    IF exp > 0 /\ num % 10 = 0 THEN Float(num \div 10, exp - 1)
    ELSE [num |-> num, exp |-> exp]

\* int64(v) for a float64 v: truncation toward zero.
FloatToInt(f) ==
    IF f.num < 0 THEN -((-f.num) \div Pow10(f.exp)) ELSE f.num \div Pow10(f.exp)

(***************************************************************************)
(* strconv.ParseFloat(s, 64) on plain decimals: an optional sign, digits,  *)
(* and an optional point followed by digits, with at least one digit.      *)
(* The exponent, hexadecimal, "inf" and "nan" forms need characters that   *)
(* no string considered here has in such a position.                       *)
(***************************************************************************)
ParseFloat(s) ==
    LET signed   == s # <<>> /\ s[1] \in {"+", "-"}
        body     == IF signed THEN Tail(s) ELSE s
        nInt     == CountLeading(body, DigitChars)
        afterInt == SubSeq(body, nInt + 1, Len(body))
        hasPoint == afterInt # <<>> /\ afterInt[1] = "."
        frac     == IF hasPoint THEN Tail(afterInt) ELSE afterInt
        mant     == DigitsVal(SubSeq(body, 1, nInt) \o frac)
    IN  IF (~hasPoint /\ afterInt # <<>>) \/ ~IsDigits(frac) \/ nInt + Len(frac) = 0
        THEN [err |-> <<"strconv.ParseFloat", "invalid syntax">>, v |-> Float(0, 0)]
        ELSE [err |-> NoError,
              v   |-> Float(IF signed /\ s[1] = "-" THEN -mant ELSE mant,
                            IF hasPoint THEN Len(frac) ELSE 0)]

\* strconv.FormatFloat(f, 'f', -1, 64), which %v and encoding/json use for
\* magnitudes between 1e-4 (1e-6 for JSON) and 1e21.
FormatFloat(f) ==
    LET mag == Abs(f.num)
    IN  (IF f.num < 0 THEN <<"-">> ELSE <<>>)
        \o NatToStr(mag \div Pow10(f.exp))
        \o (IF f.exp = 0 THEN <<>>
            ELSE <<".">> \o PadLeft(NatToStr(mag % Pow10(f.exp)), f.exp))

\* strconv.ParseBool
ParseBool(s) ==
    IF s \in {<<"1">>, <<"t">>, <<"T">>, <<"T", "R", "U", "E">>,
              <<"t", "r", "u", "e">>, <<"T", "r", "u", "e">>}
    THEN [err |-> NoError, v |-> TRUE]
    ELSE IF s \in {<<"0">>, <<"f">>, <<"F">>, <<"F", "A", "L", "S", "E">>,
                   <<"f", "a", "l", "s", "e">>, <<"F", "a", "l", "s", "e">>}
    THEN [err |-> NoError, v |-> FALSE]
    ELSE [err |-> <<"strconv.ParseBool", "invalid syntax">>, v |-> FALSE]

(***************************************************************************)
(* A time.Duration is a count of nanoseconds.  It is kept as a sign,       *)
(* whole seconds and the remaining nanoseconds, each within machine        *)
(* integers; equal durations have equal representations.                   *)
(***************************************************************************)
NanosPerSecond == 1000000000

Duration(neg, s, ns) ==
    LET secs  == s + (ns \div NanosPerSecond)
        nanos == ns % NanosPerSecond
    IN  [neg |-> neg /\ (secs # 0 \/ nanos # 0), s |-> secs, ns |-> nanos]

\* time.Duration(n) * time.Millisecond
DurationMillis(n) == Duration(n < 0, Abs(n) \div 1000, (Abs(n) % 1000) * 1000000)

\* time.Duration(n) * time.Second, time.Minute (60 s) or time.Hour (3600 s)
DurationSeconds(n, secondsPerUnit) == Duration(n < 0, Abs(n) * secondsPerUnit, 0)

\* time.Duration(v * float64(time.Second)) for a float64 v, truncated toward zero.
DurationFromFloat(f) ==
    LET mag  == Abs(f.num)
        frac == mag % Pow10(f.exp)
    IN  Duration(f.num < 0, mag \div Pow10(f.exp),
                 IF f.exp <= 9 THEN frac * Pow10(9 - f.exp) ELSE frac \div Pow10(f.exp - 9))

\* The decimal text of a duration's nanosecond count (how encoding/json writes it).
DurationNanosText(d) ==
    (IF d.neg THEN <<"-">> ELSE <<>>)
    \o (IF d.s = 0 THEN NatToStr(d.ns) ELSE NatToStr(d.s) \o PadLeft(NatToStr(d.ns), 9))

(***************************************************************************)
(* time.ParseDuration.  unitMap gives each unit as whole seconds or as a   *)
(* power of ten of nanoseconds.                                            *)
(***************************************************************************)
DurationUnits ==
    {<<"n", "s">>, <<"u", "s">>, <<"m", "s">>, <<"s">>, <<"m">>, <<"h">>}

unitMap(u) ==
    CASE u = <<"n", "s">> -> [sub |-> TRUE, n |-> 0]
      [] u = <<"u", "s">> -> [sub |-> TRUE, n |-> 3]
      [] u = <<"m", "s">> -> [sub |-> TRUE, n |-> 6]
      [] u = <<"s">>      -> [sub |-> FALSE, n |-> 1]
      [] u = <<"m">>      -> [sub |-> FALSE, n |-> 60]
      [] u = <<"h">>      -> [sub |-> FALSE, n |-> 3600]

\* v units plus the fraction f / 10^k of a unit, truncated to nanoseconds.
DurationTerm(v, f, k, unit) ==
    IF unit.sub
    THEN LET e == unit.n
         IN  Duration(FALSE, v \div Pow10(9 - e),
                      (v % Pow10(9 - e)) * Pow10(e)
                      + (IF k <= e THEN f * Pow10(e - k) ELSE f \div Pow10(k - e)))
    ELSE LET whole == (f * unit.n) \div Pow10(k)
             rest  == (f * unit.n) % Pow10(k)
         IN  Duration(FALSE, v * unit.n + whole,
                      IF k <= 9 THEN rest * Pow10(9 - k) ELSE rest \div Pow10(k - 9))

RECURSIVE ParseDurationTerms(_, _)
\* The loop of time.ParseDuration over the unsigned text: ([0-9]*(\.[0-9]*)?[a-z]+)+
ParseDurationTerms(s, d) ==
    IF s = <<>> THEN [err |-> NoError, v |-> d]
    ELSE IF s[1] \notin DigitChars \cup {"."}
    THEN [err |-> <<"time", "invalid duration">>, v |-> Duration(FALSE, 0, 0)]
    ELSE
        LET nInt      == CountLeading(s, DigitChars)
            v         == DigitsVal(SubSeq(s, 1, nInt))
            afterInt  == SubSeq(s, nInt + 1, Len(s))
            hasPoint  == afterInt # <<>> /\ afterInt[1] = "."
            fracSrc   == IF hasPoint THEN Tail(afterInt) ELSE afterInt
            nFrac     == IF hasPoint THEN CountLeading(fracSrc, DigitChars) ELSE 0
            f         == DigitsVal(SubSeq(fracSrc, 1, nFrac))
            afterFrac == SubSeq(fracSrc, nFrac + 1, Len(fracSrc))
            unitStops == {i \in 1..Len(afterFrac) : afterFrac[i] \in DigitChars \cup {"."}}
            nUnit     == IF unitStops = {} THEN Len(afterFrac)
                         ELSE (CHOOSE i \in unitStops : \A j \in unitStops : i <= j) - 1
            u         == SubSeq(afterFrac, 1, nUnit)
        IN  IF nInt = 0 /\ nFrac = 0
            THEN [err |-> <<"time", "invalid duration">>, v |-> Duration(FALSE, 0, 0)]
            ELSE IF nUnit = 0
            THEN [err |-> <<"time", "missing unit in duration">>, v |-> Duration(FALSE, 0, 0)]
            ELSE IF u \notin DurationUnits
            THEN [err |-> <<"time", "unknown unit in duration">>, v |-> Duration(FALSE, 0, 0)]
            ELSE LET term == DurationTerm(v, f, nFrac, unitMap(u))
                 IN  ParseDurationTerms(SubSeq(afterFrac, nUnit + 1, Len(afterFrac)),
                                        Duration(FALSE, d.s + term.s, d.ns + term.ns))

ParseDuration(orig) ==
    LET signed == orig # <<>> /\ orig[1] \in {"-", "+"}
        s      == IF signed THEN Tail(orig) ELSE orig
    IN  IF s = <<"0">> THEN [err |-> NoError, v |-> Duration(FALSE, 0, 0)]
        ELSE IF s = <<>>
        THEN [err |-> <<"time", "invalid duration">>, v |-> Duration(FALSE, 0, 0)]
        ELSE LET r == ParseDurationTerms(s, Duration(FALSE, 0, 0))
             IN  IF r.err # NoError THEN r
                 ELSE [err |-> NoError,
                       v   |-> Duration(signed /\ orig[1] = "-", r.v.s, r.v.ns)]

(***************************************************************************)
(* time.Parse for the two layouts the program uses.  A time.Time is the    *)
(* record of its date, clock, fraction digits and zone offset in minutes.  *)
(***************************************************************************)
Time(Y, M, D, h, m, sec, frac, zone) ==
    [year |-> Y, month |-> M, day |-> D, hour |-> h, minute |-> m, second |-> sec,
     frac |-> frac, zone |-> zone]

ZeroTime == Time(1, 1, 1, 0, 0, 0, <<>>, 0)

\* Two digits at position i of s, or -1.
TwoDigits(s, i) ==
    IF Len(s) >= i + 1 /\ s[i] \in DigitChars /\ s[i + 1] \in DigitChars
    THEN DigitVal(s[i]) * 10 + DigitVal(s[i + 1])
    ELSE -1

\* The length of an optional fractional-second field (".5", ",123") at the head of s.
FractionLen(s) ==
    IF Len(s) >= 2 /\ s[1] \in {".", ","} /\ s[2] \in DigitChars
    THEN 1 + CountLeading(Tail(s), DigitChars)
    ELSE 0

DaysIn(M, Y) ==
    IF M = 2 THEN (IF Y % 4 = 0 /\ (Y % 100 # 0 \/ Y % 400 = 0) THEN 29 ELSE 28)
    ELSE IF M \in {4, 6, 9, 11} THEN 30 ELSE 31

\* time.Parse("15:04:05", s): the result is on January 1 of year 0, UTC.
ParseClock(s) ==
    LET h    == TwoDigits(s, 1)
        m    == TwoDigits(s, 4)
        sec  == TwoDigits(s, 7)
        rest == SubSeq(s, 9, Len(s))
        nf   == FractionLen(rest)
    IN  IF /\ Len(s) >= 8 /\ s[3] = ":" /\ s[6] = ":"
           /\ h \in 0..23 /\ m \in 0..59 /\ sec \in 0..59
           /\ nf = Len(rest)
        THEN [err |-> NoError,
              v   |-> Time(0, 1, 1, h, m, sec, SubSeq(rest, 2, Len(rest)), 0)]
        ELSE [err |-> <<"parsing time", "15:04:05">>, v |-> ZeroTime]

\* time.Parse(time.RFC3339, s): "2006-01-02T15:04:05Z07:00".
ParseRFC3339(s) ==
    LET Y     == IF Len(s) >= 4 /\ IsDigits(SubSeq(s, 1, 4)) THEN DigitsVal(SubSeq(s, 1, 4)) ELSE -1
        M     == TwoDigits(s, 6)
        D     == TwoDigits(s, 9)
        h     == TwoDigits(s, 12)
        m     == TwoDigits(s, 15)
        sec   == TwoDigits(s, 18)
        rest  == SubSeq(s, 20, Len(s))
        nf    == FractionLen(rest)
        zone  == SubSeq(rest, nf + 1, Len(rest))
        zh    == TwoDigits(zone, 2)
        zm    == TwoDigits(zone, 5)
        zoneOK ==
            \/ zone = <<"Z">>
            \/ /\ Len(zone) = 6 /\ zone[1] \in {"+", "-"} /\ zone[4] = ":"
               /\ zh \in 0..23 /\ zm \in 0..59
    IN  IF /\ Len(s) >= 20 /\ s[5] = "-" /\ s[8] = "-" /\ s[11] = "T"
           /\ s[14] = ":" /\ s[17] = ":"
           /\ Y >= 0 /\ M \in 1..12 /\ D >= 1 /\ D <= DaysIn(M, Y)
           /\ h \in 0..23 /\ m \in 0..59 /\ sec \in 0..59
           /\ zoneOK
        THEN [err |-> NoError,
              v   |-> Time(Y, M, D, h, m, sec, SubSeq(rest, 2, nf),
                           IF zone = <<"Z">> THEN 0
                           ELSE (IF zone[1] = "-" THEN -1 ELSE 1) * (zh * 60 + zm))]
        ELSE [err |-> <<"parsing time", "RFC3339">>, v |-> ZeroTime]

\* Time.Format(time.RFC3339Nano), the text encoding/json writes for a time.Time.
FormatRFC3339(t) ==
    PadLeft(NatToStr(t.year), 4) \o <<"-">> \o PadLeft(NatToStr(t.month), 2) \o <<"-">>
    \o PadLeft(NatToStr(t.day), 2) \o <<"T">> \o PadLeft(NatToStr(t.hour), 2) \o <<":">>
    \o PadLeft(NatToStr(t.minute), 2) \o <<":">> \o PadLeft(NatToStr(t.second), 2)
    \o (IF t.frac = <<>> THEN <<>> ELSE <<".">> \o t.frac)
    \o (IF t.zone = 0 THEN <<"Z">>
        ELSE (IF t.zone < 0 THEN <<"-">> ELSE <<"+">>)
             \o PadLeft(NatToStr(Abs(t.zone) \div 60), 2) \o <<":">>
             \o PadLeft(NatToStr(Abs(t.zone) % 60), 2))

(***************************************************************************)
(* Values of type interface{}: the dynamic type and the value.             *)
(***************************************************************************)
GoValue(kind, v) == <<kind, v>>

Kind(value) == value[1]

Val(value) == value[2]

GoNil == GoValue("nil", 0)

GoString(s) == GoValue("string", s)

GoFloat64(f) == GoValue("float64", f)

GoInt(n) == GoValue("int", n)

GoInt64(n) == GoValue("int64", n)

GoBool(b) == GoValue("bool", b)

GoTime(t) == GoValue("time.Time", t)

GoDuration(d) == GoValue("time.Duration", d)

\* map[string]interface{}: the <<key, value>> entries in the byte order of
\* their one-character keys, the order in which %v and encoding/json visit
\* them.
GoMap(entries) == GoValue("map", entries)

\* The escaping of one character inside a JSON string.
JSONEscape(c) ==
    IF c = "\"" THEN <<"\\", "\"">> ELSE IF c = "\\" THEN <<"\\", "\\">> ELSE <<c>>

RECURSIVE JSONQuote(_)
JSONQuote(s) == IF s = <<>> THEN <<>> ELSE JSONEscape(Head(s)) \o JSONQuote(Tail(s))

RECURSIVE MarshalJSON(_)
RECURSIVE MarshalJSONMembers(_)
\* json.Marshal(value), as text.
MarshalJSON(value) ==
    CASE Kind(value) = "nil"     -> <<"n", "u", "l", "l">>
      [] Kind(value) = "string"  -> <<"\"">> \o JSONQuote(Val(value)) \o <<"\"">>
      [] Kind(value) = "float64" -> FormatFloat(Val(value))
      [] Kind(value) \in {"int", "int64"} -> IntToStr(Val(value))
      [] Kind(value) = "bool"    ->
            IF Val(value) THEN <<"t", "r", "u", "e">> ELSE <<"f", "a", "l", "s", "e">>
      [] Kind(value) = "time.Time" -> <<"\"">> \o FormatRFC3339(Val(value)) \o <<"\"">>
      [] Kind(value) = "time.Duration" -> DurationNanosText(Val(value))
      [] Kind(value) = "map"     ->
            <<"{">> \o MarshalJSONMembers(Val(value)) \o <<"}">>

MarshalJSONMembers(entries) ==
    IF entries = <<>> THEN <<>>
    ELSE <<"\"">> \o JSONEscape(Head(entries)[1]) \o <<"\"", ":">>
         \o MarshalJSON(Head(entries)[2])
         \o (IF Len(entries) > 1 THEN <<",">> ELSE <<>>)
         \o MarshalJSONMembers(Tail(entries))

RECURSIVE Sprintf(_)
RECURSIVE SprintfMembers(_)
\* fmt.Sprintf("%v", value) for the values a decoded JSON body can hold.
Sprintf(value) ==
    CASE Kind(value) = "nil"     -> <<"<", "n", "i", "l", ">">>
      [] Kind(value) = "string"  -> Val(value)
      [] Kind(value) = "float64" -> FormatFloat(Val(value))
      [] Kind(value) \in {"int", "int64"} -> IntToStr(Val(value))
      [] Kind(value) = "bool"    ->
            IF Val(value) THEN <<"t", "r", "u", "e">> ELSE <<"f", "a", "l", "s", "e">>
      [] Kind(value) = "map"     ->
            <<"m", "a", "p", "[">> \o SprintfMembers(Val(value))
            \o <<"]">>

SprintfMembers(entries) ==
    IF entries = <<>> THEN <<>>
    ELSE <<Head(entries)[1], ":">> \o Sprintf(Head(entries)[2])
         \o (IF Len(entries) > 1 THEN <<" ">> ELSE <<>>)
         \o SprintfMembers(Tail(entries))

(***************************************************************************)
(* convertFieldValue (api): one operator per case of the type switch.      *)
(* A result is the pair of the error and the converted value.              *)
(***************************************************************************)
Converted(value) == [err |-> NoError, val |-> value]

ConvertError(msg) == [err |-> msg, val |-> GoNil]

CannotConvert(value, to) == ConvertError(<<"cannot convert", Kind(value), "to", to>>)

\* Lifts the (value, error) pair of a parser into a conversion result.
FromParse(r, wrap) == IF r.err = NoError THEN Converted(wrap) ELSE ConvertError(r.err)

convertString(value) ==
    IF Kind(value) = "string" THEN Converted(value)
    ELSE Converted(GoString(Sprintf(value)))

convertInt(value) ==
    CASE Kind(value) = "float64" -> Converted(GoInt64(FloatToInt(Val(value))))
      [] Kind(value) = "int"     -> Converted(GoInt64(Val(value)))
      [] Kind(value) = "int64"   -> Converted(value)
      [] Kind(value) = "string"  -> FromParse(ParseInt(Val(value)), GoInt64(ParseInt(Val(value)).v))
      [] OTHER                  -> CannotConvert(value, "int")

convertFloat(value) ==
    CASE Kind(value) = "float64" -> Converted(value)
      [] Kind(value) \in {"int", "int64"} -> Converted(GoFloat64(Float(Val(value), 0)))
      [] Kind(value) = "string"  -> FromParse(ParseFloat(Val(value)), GoFloat64(ParseFloat(Val(value)).v))
      [] OTHER                  -> CannotConvert(value, "float")

convertBool(value) ==
    CASE Kind(value) = "bool"   -> Converted(value)
      [] Kind(value) = "string" -> FromParse(ParseBool(Val(value)), GoBool(ParseBool(Val(value)).v))
      [] OTHER                 -> CannotConvert(value, "bool")

\* A datetime conversion that, like the one for `time`, takes strings only.
convertDateTime_StringsOnly(value) ==
    CASE Kind(value) = "string" -> FromParse(ParseRFC3339(Val(value)), GoTime(ParseRFC3339(Val(value)).v))
      [] OTHER                 -> CannotConvert(value, "datetime")

convertDateTime(value) ==
    CASE Kind(value) = "string"    -> FromParse(ParseRFC3339(Val(value)), GoTime(ParseRFC3339(Val(value)).v))
      [] Kind(value) = "time.Time" -> Converted(value)
      [] OTHER                    -> CannotConvert(value, "datetime")

convertTime(value) ==
    CASE Kind(value) = "string" -> FromParse(ParseClock(Val(value)), GoTime(ParseClock(Val(value)).v))
      [] OTHER                 -> CannotConvert(value, "time")

\* The suffix rules for duration strings, tried in the order ms, s, m, h; the
\* first suffix the string ends with decides, and its ParseInt error is final.
convertDurationString(v) ==
    LET ms == <<"m", "s">>
        wrapErr(r) == ConvertError(<<"invalid duration format">> \o r.err)
    IN  IF HasSuffix(v, ms)
        THEN LET r == ParseInt(TrimSuffix(v, ms))
             IN  IF r.err # NoError THEN wrapErr(r)
                 ELSE Converted(GoDuration(DurationMillis(r.v)))
        ELSE IF HasSuffix(v, <<"s">>)
        THEN LET r == ParseInt(TrimSuffix(v, <<"s">>))
             IN  IF r.err # NoError THEN wrapErr(r)
                 ELSE Converted(GoDuration(DurationSeconds(r.v, 1)))
        ELSE IF HasSuffix(v, <<"m">>)
        THEN LET r == ParseInt(TrimSuffix(v, <<"m">>))
             IN  IF r.err # NoError THEN wrapErr(r)
                 ELSE Converted(GoDuration(DurationSeconds(r.v, 60)))
        ELSE IF HasSuffix(v, <<"h">>)
        THEN LET r == ParseInt(TrimSuffix(v, <<"h">>))
             IN  IF r.err # NoError THEN wrapErr(r)
                 ELSE Converted(GoDuration(DurationSeconds(r.v, 3600)))
        ELSE FromParse(ParseDuration(v), GoDuration(ParseDuration(v).v))

convertDuration(value) ==
    CASE Kind(value) = "string"  -> convertDurationString(Val(value))
      [] Kind(value) \in {"int", "int64"} -> Converted(GoDuration(DurationSeconds(Val(value), 1)))
      [] Kind(value) = "float64" -> Converted(GoDuration(DurationFromFloat(Val(value))))
      [] Kind(value) = "time.Duration" -> Converted(value)
      [] OTHER                  -> CannotConvert(value, "duration")

\* json and rest: the JSON text of the value, as a string.
convertJSON(value) == Converted(GoString(MarshalJSON(value)))

convertFieldValue(value, fieldType) ==
    CASE fieldType = FieldTypeString   -> convertString(value)
      [] fieldType = FieldTypeInt      -> convertInt(value)
      [] fieldType = FieldTypeFloat    -> convertFloat(value)
      [] fieldType = FieldTypeBool     -> convertBool(value)
      [] fieldType = FieldTypeDateTime -> convertDateTime(value)
      [] fieldType = FieldTypeTime     -> convertTime(value)
      [] fieldType = FieldTypeDuration -> convertDuration(value)
      [] fieldType = FieldTypeJSON     -> convertJSON(value)
      [] fieldType = FieldTypeRest     -> convertJSON(value)
      [] OTHER -> ConvertError(<<"unsupported field type", fieldType>>)

(***************************************************************************)
(* The raw values and types the conversion is applied to.                  *)
(***************************************************************************)
RawStrings ==
    { <<>>, <<"5">>, <<"-", "5">>, <<"0", ".", "5">>, <<"0">>,
      <<"t", "r", "u", "e">>, <<"a", "b", "c">>, <<"a", "\"", "b">>,
      <<"1", "2", ":", "3", "0", ":", "0", "0">>,
      <<"2", "5", ":", "0", "0", ":", "0", "0">>,
      <<"2", "0", "2", "4", "-", "0", "2", "-", "2", "9", "T",
        "0", "3", ":", "0", "4", ":", "0", "5", "Z">>,
      <<"2", "0", "2", "3", "-", "0", "2", "-", "2", "9", "T",
        "0", "3", ":", "0", "4", ":", "0", "5", "Z">>,
      <<"2", "0", "2", "4", "-", "0", "1", "-", "0", "2", "T",
        "0", "3", ":", "0", "4", ":", "0", "5", "+", "0", "8", ":", "0", "0">>,
      <<"5", "0", "0", "m", "s">>, <<"5", "s">>, <<"5", "m">>, <<"5", "h">>,
      <<"5", "h", "5", "m">>, <<"0", ".", "5", "s">>, <<"5", "u", "s">> }

RawValues ==
    {GoString(s) : s \in RawStrings}
    \cup {GoFloat64(Float(0, 0)), GoFloat64(Float(5, 0)), GoFloat64(Float(15, 1)),
          GoFloat64(Float(-5, 1))}
    \cup {GoInt(5), GoInt(-5), GoInt64(5)}
    \cup {GoBool(TRUE), GoBool(FALSE), GoNil}
    \cup {GoMap(<<>>), GoMap(<< <<"k", GoString(<<"v">>)>> >>),
          GoMap(<< <<"a", GoFloat64(Float(5, 0))>>, <<"k", GoString(<<"v">>)>> >>)}

\* The declared types, and one name that is no field type.
CoerceTypes == FieldTypes \cup {"uuid"}

\* The characters duration strings are drawn from.
DurationAlphabet == {"0", "5", ".", "-", "m", "s", "h"}

MaxStrLen == 5

RECURSIVE StringsUpTo(_)
StringsUpTo(n) ==
    IF n = 0 THEN {<<>>}
    ELSE LET shorter == StringsUpTo(n - 1)
         IN  shorter \cup {Append(s, c) : s \in {t \in shorter : Len(t) = n - 1},
                                         c \in DurationAlphabet}

DurationStrings == StringsUpTo(MaxStrLen)

\* The variables of the schema part, in a specification that does not use them.
SchemaIdle ==
    /\ schema = Unset
    /\ verr = NoError
    /\ stored = {}
    /\ yamlDoc = Unset
    /\ fromYaml = Unset

\* deserializeLogEntry converts a raw field value to the declared type.
Convert ==
    /\ pc = "raw"
    /\ conv1' = convertFieldValue(raw, ftype)
    /\ pc' = "converted"
    /\ UNCHANGED <<raw, ftype, conv2, schemaVars, storeVars, mgrVars, metaVars>>

\* The converted value is submitted again for the same field.
ConvertAgain ==
    /\ pc = "converted"
    /\ conv1.err = NoError
    /\ conv2' = convertFieldValue(conv1.val, ftype)
    /\ pc' = "reconverted"
    /\ UNCHANGED <<raw, ftype, conv1, schemaVars, storeVars, mgrVars, metaVars>>

InitCoerce ==
    /\ pc = "raw"
    /\ raw \in RawValues
    /\ ftype \in CoerceTypes
    /\ conv1 = Unset
    /\ conv2 = Unset
    /\ SchemaIdle
    /\ StoreIdle
    /\ MgrIdle
    /\ MetaIdle

NextCoerce == Convert \/ ConvertAgain

SpecCoerce == InitCoerce /\ [][NextCoerce]_vars

InitDuration ==
    /\ pc = "raw"
    /\ raw \in {GoString(s) : s \in DurationStrings}
    /\ ftype = FieldTypeDuration
    /\ conv1 = Unset
    /\ conv2 = Unset
    /\ SchemaIdle
    /\ StoreIdle
    /\ MgrIdle
    /\ MetaIdle

SpecDuration == InitDuration /\ [][NextCoerce]_vars

\* The types for which convertFieldValue has a case of its own.
CoercibleTypes ==
    {FieldTypeString, FieldTypeInt, FieldTypeFloat, FieldTypeBool, FieldTypeDateTime,
     FieldTypeTime, FieldTypeDuration, FieldTypeJSON, FieldTypeRest}

\* C8 (as stated): for every type with a defined coercion, converting the
\* result y of a successful conversion again succeeds and returns y.
C8_CoercionIdempotent ==
    (pc = "reconverted" /\ ftype \in CoercibleTypes)
        => (conv2.err = NoError /\ conv2.val = conv1.val)

\* C8 (amended): converting the result y again returns y for string, int,
\* float, bool, datetime and duration; for time the second conversion fails
\* (only strings are taken), and for json and rest it returns the JSON
\* encoding of the string y, which is longer than y.
C8_CoercionIdempotentAmended ==
    pc = "reconverted" =>
        /\ ftype \in {"string", "int", "float", "bool", "datetime", "duration"}
              => (conv2.err = NoError /\ conv2.val = conv1.val)
        /\ ftype = "time" => conv2.err # NoError
        /\ ftype \in {"json", "rest"}
              => /\ conv2.err = NoError
                 /\ Kind(conv1.val) = "string" /\ Kind(conv2.val) = "string"
                 /\ Len(Val(conv2.val)) >= Len(Val(conv1.val)) + 2

\* A datetime string was converted to a time.Time, which was converted again.
C8_Witness ==
    /\ pc = "reconverted"
    /\ ftype = "datetime"
    /\ Kind(raw) = "string"
    /\ Kind(conv1.val) = "time.Time"

\* What C9 expects of a duration string: the suffix rule that parses it, else
\* the general parser.
C9_Reference(s) ==
    LET n(suffix) == ParseInt(TrimSuffix(s, suffix))
        rule(suffix) == HasSuffix(s, suffix) /\ n(suffix).err = NoError
        general == ParseDuration(s)
    IN  IF rule(<<"m", "s">>) THEN [ok |-> TRUE, d |-> DurationMillis(n(<<"m", "s">>).v)]
        ELSE IF rule(<<"s">>) THEN [ok |-> TRUE, d |-> DurationSeconds(n(<<"s">>).v, 1)]
        ELSE IF rule(<<"m">>) THEN [ok |-> TRUE, d |-> DurationSeconds(n(<<"m">>).v, 60)]
        ELSE IF rule(<<"h">>) THEN [ok |-> TRUE, d |-> DurationSeconds(n(<<"h">>).v, 3600)]
        ELSE [ok |-> general.err = NoError, d |-> general.v]

\* C9: the coercion of a string to a duration is n units for an integer n
\* followed by ms, s, m or h, and otherwise the result of the general
\* duration parser, failing only when that parser rejects the string.
C9_DurationStringReference ==
    (pc = "converted" /\ ftype = FieldTypeDuration /\ Kind(raw) = "string") =>
        LET ref == C9_Reference(Val(raw))
        IN  /\ (conv1.err = NoError) <=> ref.ok
            /\ ref.ok => conv1.val = GoDuration(ref.d)

(***************************************************************************)
(* Log records and their validation against a schema                       *)
(* (Schema.ValidateLogEntry and validateFieldValue, schema.go:384-529).    *)
(* Of a LogEntry the model keeps Project, Table, Level, Message, Timestamp *)
(* (whether it is set), IP and Fields, a map from field names to values.   *)
(***************************************************************************)
LogEntry(p, t, level, message, timestampSet, fields) ==
    [project |-> p, table |-> t, level |-> level, message |-> message,
     timestamp |-> timestampSet, ip |-> "10.0.0.1", fields |-> fields]

\* The field names in use, in byte order.
FieldNameOrder == <<"UserID", "count", "extra", "level", "user_id", "userid", "x">>

FieldNames == {FieldNameOrder[i] : i \in 1..Len(FieldNameOrder)}

\* strings.ToLower on the field names in use.
ToLower(name) == IF name = "UserID" THEN "userid" ELSE name

\* An empty map[string]interface{}.
EmptyFields == [n \in {} |-> GoNil]

RECURSIVE SortedEntries(_, _, _)
\* The entries of the map m under `keys`, in byte order of the keys.
SortedEntries(m, keys, i) ==
    IF i > Len(FieldNameOrder) THEN <<>>
    ELSE (IF FieldNameOrder[i] \in keys
          THEN << <<FieldNameOrder[i], m[FieldNameOrder[i]]>> >> ELSE <<>>)
         \o SortedEntries(m, keys, i + 1)

\* The first field of the catch-all type, or 0.
RestFieldIndex(s) ==
    LET rests == {i \in 1..Len(s.fields) : s.fields[i].type = FieldTypeRest}
    IN  IF rests = {} THEN 0 ELSE CHOOSE i \in rests : \A j \in rests : i <= j

validateFieldValue(fieldType, value) ==
    IF Kind(value) = "nil" THEN NoError
    ELSE CASE fieldType = FieldTypeString ->
                IF Kind(value) = "string" THEN NoError ELSE <<"expected string">>
           [] fieldType = FieldTypeInt ->
                IF Kind(value) \in {"int", "int32", "int64", "float64"} THEN NoError
                ELSE <<"expected int, got", Kind(value)>>
           [] fieldType = FieldTypeFloat ->
                IF Kind(value) \in {"float32", "float64"} THEN NoError
                ELSE <<"expected float, got", Kind(value)>>
           [] fieldType = FieldTypeBool ->
                IF Kind(value) = "bool" THEN NoError ELSE <<"expected bool">>
           [] fieldType = FieldTypeDateTime ->
                IF Kind(value) = "string"
                THEN (IF ParseRFC3339(Val(value)).err = NoError THEN NoError
                      ELSE <<"invalid datetime, expected RFC3339">>)
                ELSE IF Kind(value) = "time.Time" THEN NoError
                ELSE <<"expected datetime">>
           [] fieldType = FieldTypeTime ->
                IF Kind(value) = "string"
                THEN (IF ParseClock(Val(value)).err = NoError THEN NoError
                      ELSE <<"invalid time, expected HH:MM:SS">>)
                ELSE <<"expected time">>
           [] fieldType = FieldTypeDuration ->
                IF Kind(value) = "string"
                THEN (IF ParseDuration(Val(value)).err = NoError THEN NoError
                      ELSE <<"invalid duration">>)
                ELSE IF Kind(value) \in {"int", "int64", "float64", "time.Duration"}
                THEN NoError
                ELSE <<"expected duration">>
           [] fieldType \in {FieldTypeJSON, FieldTypeRest} -> NoError
           [] OTHER -> <<"unknown field type", fieldType>>

\* fmt.Errorf with %w: the error wrapped in a message, nil staying nil.
Wrap(message, err) == IF err # NoError THEN message \o err ELSE NoError

\* The first error of a sequence of steps: `return err` before the next step.
OrElse(err, next) == IF err # NoError THEN err ELSE next

\* The body of the loop of ValidateLogEntry over s.Fields, for one field:
\* the error it returns with, or NoError when the loop goes on.
validateEntryField(field, entry) ==
    LET key    == ToLower(field.name)
        exists == key \in DOMAIN entry.fields
    IN  IF field.type = FieldTypeRest THEN NoError
        ELSE IF key \in {"level", "message", "timestamp"} THEN NoError
        ELSE IF field.required /\ ~exists
        THEN <<"missing required field", field.name>>
        ELSE IF ~exists THEN NoError
        ELSE Wrap(<<"field type error", field.name>>,
                  validateFieldValue(field.type, entry.fields[key]))

RECURSIVE validateEntryFields(_, _, _)
\* The loop of ValidateLogEntry over s.Fields, from field i on.
validateEntryFields(s, entry, i) ==
    IF i > Len(s.fields) THEN NoError
    ELSE OrElse(validateEntryField(s.fields[i], entry),
                validateEntryFields(s, entry, i + 1))

\* The end of ValidateLogEntry, after the loop over s.Fields has returned err:
\* the entries no schema field is named after are gathered under the
\* catch-all field's name.
collectRestFields(s, entry, err) ==
    LET r   == RestFieldIndex(s)
        declared  == {s.fields[i].name : i \in 1..Len(s.fields)}
        undefined == DOMAIN entry.fields \ declared
        restFields == GoMap(SortedEntries(entry.fields, undefined, 1))
    IN  IF err # NoError THEN [err |-> err, entry |-> entry]
        ELSE IF r # 0 /\ undefined # {}
        THEN [err   |-> NoError,
              entry |-> [entry EXCEPT !.fields =
                            [n \in DOMAIN entry.fields \cup {s.fields[r].name} |->
                                IF n = s.fields[r].name THEN restFields
                                ELSE entry.fields[n]]]]
        ELSE [err |-> NoError, entry |-> entry]

\* ValidateLogEntry returns the error and leaves entry.Fields with the entries
\* no schema field is named after gathered under the catch-all field's name.
ValidateLogEntry(s, entry) ==
    IF entry.project # s.project \/ entry.table # s.table
    THEN [err |-> <<"project or table mismatch">>, entry |-> entry]
    ELSE IF entry.level = "" THEN [err |-> <<"level must not be empty">>, entry |-> entry]
    ELSE IF entry.message = "" THEN [err |-> <<"message must not be empty">>, entry |-> entry]
    ELSE IF ~entry.timestamp THEN [err |-> <<"timestamp must not be empty">>, entry |-> entry]
    ELSE collectRestFields(s, entry, validateEntryFields(s, entry, 1))

(***************************************************************************)
(* The storage drivers: GetSchema and BatchInsertLogs of the PostgreSQL,   *)
(* MySQL and ClickHouse drivers.  A row of the log table is the pair of    *)
(* the column list and the value list of its INSERT statement.             *)
(***************************************************************************)
Drivers == {"postgres", "mysql", "clickhouse"}

\* The drivers whose engine undoes the statements of a rolled-back transaction.
TransactionalDrivers == {"postgres", "mysql"}

\* GetSchema: the rows of the schemas table for (project, table).
GetSchema(project, table) == {s \in dbSchemas : s.project = project /\ s.table = table}

\* A Go string held in a struct member, as a column value.
Text(str) == GoString(<<str>>)

\* The columns of the INSERT statement.
Columns(drv, s) ==
    LET names   == {s.fields[i].name : i \in 1..Len(s.fields)}
        r       == RestFieldIndex(s)
        default == SelectSeq(<<"level", "message", "ip">>, LAMBDA n : n \notin names)
        custom  == [i \in 1..Len(s.fields) |-> s.fields[i].name]
        nonRest == SelectSeq(custom, LAMBDA n :
                       \E i \in 1..Len(s.fields) :
                           s.fields[i].name = n /\ s.fields[i].type # FieldTypeRest)
    IN  IF drv = "postgres"
        THEN <<"project", "table_name", "timestamp">> \o default \o nonRest
             \o (IF r # 0 THEN <<s.fields[r].name>> ELSE <<>>)
        ELSE custom

\* The value the PostgreSQL driver binds to column col.
PostgresValue(s, log, col) ==
    LET r == RestFieldIndex(s)
    IN  CASE col = "project"    -> Text(log.project)
          [] col = "table_name" -> Text(log.table)
          [] col = "timestamp"  ->
                GoTime(IF log.timestamp THEN Time(2024, 1, 2, 3, 4, 5, <<>>, 0) ELSE ZeroTime)
          [] col = "level"      -> Text(log.level)
          [] col = "message"    -> Text(log.message)
          [] col = "ip"         -> Text(log.ip)
          [] OTHER ->
                IF r # 0 /\ col = s.fields[r].name
                THEN (IF col \in DOMAIN log.fields
                      THEN GoString(MarshalJSON(log.fields[col]))
                      ELSE GoString(<<"{", "}">>))
                ELSE IF col \in DOMAIN log.fields
                THEN (IF Kind(log.fields[col]) = "map"
                      THEN GoString(MarshalJSON(log.fields[col]))
                      ELSE log.fields[col])
                ELSE GoNil

\* The values bound to the INSERT statement, in column order.
RowValues(drv, s, log) ==
    LET cols == Columns(drv, s)
    IN  IF drv = "postgres"
        THEN [i \in 1..Len(cols) |-> PostgresValue(s, log, cols[i])]
        ELSE LET present == SelectSeq(cols, LAMBDA n : n \in DOMAIN log.fields)
             IN  [i \in 1..Len(present) |-> log.fields[present[i]]]

\* One INSERT inside the transaction.  The statement fails when the database
\* rejects it (input `rejected`), when it has fewer values than columns, or
\* when database/sql cannot bind a map argument.
ExecStatement(drv, cols, vals, rejected) ==
    IF rejected THEN [err |-> <<"database error">>, row |-> <<>>]
    ELSE IF Len(vals) # Len(cols)
    THEN [err |-> <<"column count does not match value count">>, row |-> <<>>]
    ELSE IF drv = "mysql" /\ \E i \in 1..Len(vals) : Kind(vals[i]) = "map"
    THEN [err |-> <<"unsupported argument type map">>, row |-> <<>>]
    ELSE [err |-> NoError, row |-> <<cols, vals>>]

\* The INSERT of one record: its query and its values, then the statement.
ExecInsert(drv, s, log, rejected) ==
    ExecStatement(drv, Columns(drv, s), RowValues(drv, s, log), rejected)

RECURSIVE InsertLoop(_, _, _, _, _, _)
\* The loop body of BatchInsertLogs after the INSERT of record k returned ins.
InsertExecuted(drv, s, logs, k, pending, dbFail, ins) ==
    IF ins.err # NoError
    THEN [err |-> <<"insert failed">> \o ins.err, pending |-> pending]
    ELSE InsertLoop(drv, s, logs, k + 1, Append(pending, ins.row), dbFail)

\* The loop body of BatchInsertLogs after ValidateLogEntry of record k
\* returned v.
InsertValidated(drv, s, logs, k, pending, dbFail, v) ==
    IF v.err # NoError
    THEN [err |-> <<"log validation failed">> \o v.err, pending |-> pending]
    ELSE InsertExecuted(drv, s, logs, k, pending, dbFail,
                        ExecInsert(drv, s, v.entry, k \in dbFail))

\* The loop of BatchInsertLogs over logs from record k on: validate, then
\* INSERT in the transaction.  pending: the rows inserted so far.
InsertLoop(drv, s, logs, k, pending, dbFail) ==
    IF k > Len(logs) THEN [err |-> NoError, pending |-> pending]
    ELSE InsertValidated(drv, s, logs, k, pending, dbFail, ValidateLogEntry(s, logs[k]))

\* The deferred tx.Rollback().  PostgreSQL and MySQL (InnoDB) undo the INSERTs
\* of the transaction.  ClickHouse has no transaction to undo: whether INSERTs
\* already sent are discarded is up to the clickhouse-go driver (`discards`).
Rollback(drv, committed, pending, discards) ==
    IF drv \in TransactionalDrivers \/ discards THEN committed ELSE committed \o pending

\* tx.Commit()
Commit(committed, pending) == committed \o pending

\* The records whose ID BatchInsertLogs has set when the loop returned r.  The
\* PostgreSQL driver scans the RETURNING id of each INSERT into log.ID as soon
\* as the statement succeeded; the other drivers never set it.
AssignedIDs(drv, r) == IF drv = "postgres" THEN Len(r.pending) ELSE 0

\* The end of BatchInsertLogs after the loop returned r: the error of the
\* loop with the deferred Rollback, or Commit and its error.
EndTransaction(drv, committed, r, commitOK, discards) ==
    IF r.err # NoError
    THEN [err |-> r.err, rows |-> Rollback(drv, committed, r.pending, discards),
          ids |-> AssignedIDs(drv, r)]
    ELSE IF ~commitOK
    THEN [err |-> <<"commit failed">>,
          rows |-> Rollback(drv, committed, r.pending, discards),
          ids |-> AssignedIDs(drv, r)]
    ELSE [err |-> NoError, rows |-> Commit(committed, r.pending),
          ids |-> AssignedIDs(drv, r)]

\* BatchInsertLogs on the rows of the log table: its error, the rows after,
\* and the number of records whose ID it set.
batchInsert(drv, committed, found, logs, dbFail, commitOK, discards) ==
    IF Len(logs) = 0 THEN [err |-> NoError, rows |-> committed, ids |-> 0]
    ELSE IF found = {}
    THEN [err |-> <<"get schema failed", "schema not found">>, rows |-> committed, ids |-> 0]
    ELSE EndTransaction(drv, committed,
                        InsertLoop(drv, CHOOSE x \in found : TRUE, logs, 1, <<>>, dbFail),
                        commitOK, discards)

(***************************************************************************)
(* The schemas, records and batches the drivers are run over.              *)
(***************************************************************************)
StoreField(n, t, req) == Field(n, t, req, FALSE, <<>>, "")

StoreSchemas ==
    { Schema("p", "t", "", <<StoreField("user_id", FieldTypeString, TRUE)>>),
      Schema("p", "t", "", <<StoreField("UserID", FieldTypeString, TRUE)>>),
      Schema("p", "t", "", <<StoreField("user_id", FieldTypeString, TRUE),
                             StoreField("count", FieldTypeInt, FALSE),
                             StoreField("extra", FieldTypeRest, FALSE)>>),
      Schema("p", "t", "", <<StoreField("level", FieldTypeString, TRUE),
                             StoreField("user_id", FieldTypeString, FALSE)>>),
      Schema("p", "t", "", <<StoreField("count", FieldTypeInt, TRUE),
                             StoreField("user_id", FieldTypeString, TRUE)>>) }

U1 == GoString(<<"u", "1">>)

FieldMaps ==
    { EmptyFields,
      "user_id" :> U1,
      "UserID" :> U1,
      "userid" :> U1,
      "user_id" :> GoFloat64(Float(5, 0)),
      ("user_id" :> U1) @@ ("count" :> GoFloat64(Float(5, 0))),
      ("user_id" :> U1) @@ ("count" :> GoString(<<"x">>)),
      ("user_id" :> U1) @@ ("x" :> GoBool(TRUE)) }

\* Records with a valid envelope and each field map, and records with one
\* member of the envelope invalid.
LogEntries ==
    {LogEntry("p", "t", "INFO", "m", TRUE, f) : f \in FieldMaps}
    \cup { LogEntry("q", "t", "INFO", "m", TRUE, "user_id" :> U1),
           LogEntry("p", "t", "", "m", TRUE, "user_id" :> U1),
           LogEntry("p", "t", "INFO", "", TRUE, "user_id" :> U1),
           LogEntry("p", "t", "INFO", "m", FALSE, "user_id" :> U1) }

\* The most records of one batch.
MaxBatch == 2

RECURSIVE BatchesOfLen(_)
BatchesOfLen(n) ==
    IF n = 0 THEN {<<>>}
    ELSE {Append(b, e) : b \in BatchesOfLen(n - 1), e \in LogEntries}

\* A row that is in the table before the call.
EarlierRow == <<<<"project">>, <<Text("p")>>>>

(***************************************************************************)
(* BatchInsertLogs(ctx, "p", "t", logs), for every driver.                 *)
(* dbFail: the records whose INSERT the database rejects; commitOK:        *)
(* whether tx.Commit succeeds.                                             *)
(***************************************************************************)
StorageInsert(op, logs) ==
    /\ pc = "idle"
    /\ pc' = "called"
    /\ \E dbFail \in SUBSET (1..Len(logs)), commitOK \in BOOLEAN, discards \in BOOLEAN :
          LET done(r) ==
                  /\ logTable' = r.rows
                  /\ call' = [op |-> op, logs |-> logs, dbFail |-> dbFail, err |-> r.err,
                              before |-> logTable, ids |-> r.ids]
          IN  done(batchInsert(driver, logTable, GetSchema("p", "t"), logs,
                               dbFail, commitOK, discards))
    /\ UNCHANGED <<driver, dbSchemas, schemaVars, coerceVars, mgrVars, metaVars>>

BatchInsertLogs == \E n \in 0..MaxBatch : \E logs \in BatchesOfLen(n) : StorageInsert("BatchInsertLogs", logs)

\* InsertLog is BatchInsertLogs of the one record.
InsertLog == \E log \in LogEntries : StorageInsert("InsertLog", <<log>>)

InitStore ==
    /\ pc = "idle"
    /\ driver \in Drivers
    /\ dbSchemas \in {{}} \cup {{s} : s \in StoreSchemas}
    /\ logTable \in {<<>>, <<EarlierRow>>}
    /\ call = Unset
    /\ SchemaIdle
    /\ CoerceIdle
    /\ MgrIdle
    /\ MetaIdle

NextStore == BatchInsertLogs \/ InsertLog

SpecStore == InitStore /\ [][NextStore]_vars

(***************************************************************************)
(* Claims about the batch insert and the record validator.                 *)
(***************************************************************************)
\* The error with which record `log` fails on its own: its validation error,
\* else the error of its INSERT, else none.
RecordFailure(s, log, rejected) ==
    LET v == ValidateLogEntry(s, log)
    IN  IF v.err # NoError THEN <<"log validation failed">> \o v.err
        ELSE LET ins == ExecInsert(driver, s, v.entry, rejected)
             IN  IF ins.err # NoError THEN <<"insert failed">> \o ins.err ELSE NoError

\* The records of the last call that fail, by position.
FailingRecords(s) ==
    {k \in 1..Len(call.logs) : RecordFailure(s, call.logs[k], k \in call.dbFail) # NoError}

FirstFailing(s) == CHOOSE k \in FailingRecords(s) : \A j \in FailingRecords(s) : k <= j

\* The last call was a batch insert of two or more records against a
\* persisted schema, and one of its records fails.
BatchWithFailure ==
    /\ pc = "called"
    /\ call.op = "BatchInsertLogs"
    /\ Len(call.logs) >= 2
    /\ GetSchema("p", "t") # {}
    /\ FailingRecords(CHOOSE x \in GetSchema("p", "t") : TRUE) # {}

\* C1: in every driver, when record k of a batch of N >= 2 fails
\* validation or its INSERT, none of the N records is in the table after the
\* call and the returned error is that of the first failing record.
C1_BatchAllOrNothing ==
    BatchWithFailure =>
        LET s == CHOOSE x \in GetSchema("p", "t") : TRUE
            k == FirstFailing(s)
        IN  /\ logTable = call.before
            /\ call.err = RecordFailure(s, call.logs[k], k \in call.dbFail)

\* What does hold of a failing batch: the returned error is that of the first
\* failing record k in every driver; the table is as before the call in the
\* PostgreSQL and MySQL drivers, and in the ClickHouse driver it holds its
\* earlier rows followed by at most the rows of records 1..k-1.
FailingBatchOutcome ==
    BatchWithFailure =>
        LET s == CHOOSE x \in GetSchema("p", "t") : TRUE
            k == FirstFailing(s)
        IN  /\ call.err = RecordFailure(s, call.logs[k], k \in call.dbFail)
            /\ driver \in TransactionalDrivers => logTable = call.before
            /\ driver = "clickhouse" =>
                  /\ Len(logTable) <= Len(call.before) + k - 1
                  /\ SubSeq(logTable, 1, Len(call.before)) = call.before

\* The names ValidateLogEntry and the drivers treat as members of the record.
ImplicitNames == {"level", "message", "timestamp", "ip"}

\* C2: a call that inserts one record whose field map has no entry named after
\* a required field f (not catch-all, not an implicit record member) returns a
\* validation error and persists no row; the error names f when the record's
\* envelope is valid and f is the first field of the schema.
C2_MissingRequiredRejected ==
    (pc = "called" /\ Len(call.logs) = 1 /\ GetSchema("p", "t") # {}) =>
        LET s   == CHOOSE x \in GetSchema("p", "t") : TRUE
            log == call.logs[1]
        IN  \A i \in 1..Len(s.fields) :
                LET f == s.fields[i]
                IN  (/\ f.required /\ f.type # FieldTypeRest
                     /\ ToLower(f.name) \notin ImplicitNames
                     /\ f.name \notin DOMAIN log.fields)
                    => /\ call.err # NoError
                       /\ call.err[1] = "log validation failed"
                       /\ logTable = call.before
                       /\ (/\ i = 1 /\ log.project = "p" /\ log.table = "t"
                           /\ log.level # "" /\ log.message # "" /\ log.timestamp)
                          => call.err = <<"log validation failed",
                                          "missing required field", f.name>>

\* Whether a value has the declared type of a field.
HasDeclaredType(type, value) ==
    CASE type = FieldTypeString -> Kind(value) = "string"
      [] type = FieldTypeInt    -> Kind(value) \in {"int", "int64", "float64"}
      [] type = FieldTypeFloat  -> Kind(value) = "float64"
      [] type = FieldTypeBool   -> Kind(value) = "bool"
      [] type \in {FieldTypeJSON, FieldTypeRest} -> TRUE
      [] OTHER -> FALSE

\* C3: a record with matching project and table, non-empty level and message,
\* a set timestamp and, under the declared name of every required field (and
\* of every other declared field it carries), a value of the declared type,
\* passes ValidateLogEntry.
C3_ConformingRecordValidates ==
    (pc = "called" /\ Len(call.logs) = 1 /\ GetSchema("p", "t") # {}) =>
        LET s   == CHOOSE x \in GetSchema("p", "t") : TRUE
            log == call.logs[1]
            conforming ==
                /\ log.project = "p" /\ log.table = "t"
                /\ log.level # "" /\ log.message # "" /\ log.timestamp
                /\ \A i \in 1..Len(s.fields) :
                      LET f == s.fields[i]
                      IN  /\ (f.required /\ f.type # FieldTypeRest)
                                => f.name \in DOMAIN log.fields
                          /\ f.name \in DOMAIN log.fields
                                => HasDeclaredType(f.type, log.fields[f.name])
        IN  conforming => (call.err = NoError \/ call.err[1] # "log validation failed")

(***************************************************************************)
(* The schema Manager (internal/schema): Start, Stop, loadSchemas,         *)
(* loadSchema, watchChanges, GetSchema.                                    *)
(*                                                                         *)
(* A file name is the pair of its base name and its extension.  A file's   *)
(* content is absent, a YAML scalar (which does not unmarshal into a       *)
(* struct) or a YAML mapping.                                              *)
(***************************************************************************)
FileOrder == << <<"dup", ".yaml">>, <<"notes", ".txt">>, <<"p_t", ".yaml">> >>

FileNames == {FileOrder[i] : i \in 1..Len(FileOrder)}

\* filepath.Ext
Ext(name) == name[2]

EmptyDoc == [k \in {} |-> ""]

Absent == [kind |-> "absent", doc |-> EmptyDoc]

ScalarFile == [kind |-> "scalar", doc |-> EmptyDoc]

MappingFile(doc) == [kind |-> "mapping", doc |-> doc]

\* The file Schema.SaveToFile writes for project "p", table "t".
SchemaFile(description) ==
    MappingFile([project |-> "p", table |-> "t", description |-> description,
                 fields |-> << [name |-> "a", type |-> "string",
                                required |-> TRUE, indexed |-> FALSE] >>])

\* A file that parses into a schema without fields, which Schema.Validate
\* rejects.
NoFieldsFile ==
    MappingFile([project |-> "p", table |-> "t", description |-> "d1", fields |-> <<>>])

\* A variant of UpsertSchema that persists nothing.
UpsertSchema_Skip(rows, s) == rows

\* A variant of UpsertSchema that keeps the earlier row of the key.
UpsertSchema_Append(rows, s) == rows \cup {s}

\* A variant of CacheDelete that deletes nothing.
CacheDelete_Keep(c, key) == c

\* A variant of CacheDelete that blanks the entries instead.
CacheDelete_Blank(c, key) == [k \in DOMAIN c |-> Schema("", "", "", <<>>)]

\* The contents a file is given by the writes considered.
WritableContents(name) ==
    IF name = <<"p_t", ".yaml">>
    THEN {SchemaFile("d1"), SchemaFile("d2"), ScalarFile, NoFieldsFile}
    ELSE IF name = <<"dup", ".yaml">> THEN {SchemaFile("d2")}
    ELSE {SchemaFile("d1")}

\* The zero value &models.Schema{}.
EmptySchema == Schema("", "", "", <<>>)

RECURSIVE UnmarshalFields(_)
\* yaml.Unmarshal of a list of fields into []*models.Field, by the yaml tags.
UnmarshalFields(yfs) ==
    IF yfs = <<>> THEN <<>>
    ELSE LET yf == Head(yfs)
         IN  <<Field(YAMLGet(yf, "name", ""), YAMLGet(yf, "type", ""),
                     YAMLGet(yf, "required", FALSE), YAMLGet(yf, "indexed", FALSE),
                     UnmarshalFields(YAMLGet(yf, "fields", <<>>)),
                     YAMLGet(yf, "item_type", ""))>>
             \o UnmarshalFields(Tail(yfs))

\* os.ReadFile and yaml.Unmarshal into a models.Schema, as loadSchema does:
\* no check of the result follows.
ReadSchemaFile(content) ==
    IF content.kind = "absent"
    THEN [err |-> <<"read file failed">>, schema |-> EmptySchema]
    ELSE IF content.kind = "scalar"
    THEN [err |-> <<"parse YAML failed">>, schema |-> EmptySchema]
    ELSE [err |-> NoError,
          schema |-> Schema(YAMLGet(content.doc, "project", ""),
                            YAMLGet(content.doc, "table", ""),
                            YAMLGet(content.doc, "description", ""),
                            UnmarshalFields(YAMLGet(content.doc, "fields", <<>>)))]

\* The cache key of a schema.
Key(s) == s.project \o ":" \o s.table

\* The file name the Remove case expects for a cached schema.
FileNameOf(s) == <<s.project \o "_" \o s.table, ".yaml">>

\* storage.CreateSchema: insert the row, or replace the row of the same
\* (project, table).
UpsertSchema(rows, s) ==
    {x \in rows : ~(x.project = s.project /\ x.table = s.table)} \cup {s}

\* A variant of CacheStore that leaves the cache as it is.
CacheStore_Skip(c, s) == c

\* m.schemas[schema.Project+":"+schema.Table] = schema
CacheStore(c, s) ==
    [k \in DOMAIN c \cup {Key(s)} |-> IF k = Key(s) THEN s ELSE c[k]]

\* delete(m.schemas, key)
CacheDelete(c, key) == [k \in DOMAIN c \ {key} |-> c[k]]

EmptyCache == [k \in {} |-> EmptySchema]

\* Manager.GetSchema
ManagerGetSchema(project, table) ==
    LET key == project \o ":" \o table
    IN  IF key \in DOMAIN cache THEN [err |-> NoError, schema |-> cache[key]]
        ELSE [err |-> <<"schema not found", key>>, schema |-> EmptySchema]

\* Manager.ListSchemas
ManagerListSchemas == {cache[k] : k \in DOMAIN cache}

\* The loadSchema call of the watch goroutine.
Load(stage, file, s, err) == [stage |-> stage, file |-> file, schema |-> s, err |-> err]

NoLoad == Load("idle", <<"", "">>, EmptySchema, NoError)

\* The most file operations of a behaviour.
MaxFsOps == 3

RECURSIVE loadSchemas(_, _, _, _)
\* The initial scan: loadSchema for every .yaml file, in directory order; a
\* file whose load fails is reported and skipped.  failing: the files for
\* which storage.CreateSchema returns an error.
loadSchemas(i, rows, c, failing) ==
    IF i > Len(FileOrder) THEN [rows |-> rows, cache |-> c]
    ELSE LET name == FileOrder[i]
             r    == ReadSchemaFile(files[name])
         IN  IF files[name].kind = "absent" \/ Ext(name) # ".yaml" \/ r.err # NoError
                \/ name \in failing
             THEN loadSchemas(i + 1, rows, c, failing)
             ELSE loadSchemas(i + 1, UpsertSchema(rows, r.schema),
                              CacheStore(c, r.schema), failing)

\* An fsnotify event for the watch goroutine, when the directory is watched.
Notify(name, op) ==
    IF mgrState = "Running" THEN Append(events, [name |-> name, op |-> op]) ELSE events

\* Manager.Start: the initial scan, watcher.Add, go watchChanges().
Start ==
    /\ mgrState = "Uninitialized"
    /\ \E failing \in SUBSET {n \in FileNames : files[n].kind = "mapping" /\ Ext(n) = ".yaml"} :
          LET r == loadSchemas(1, dbSchemas, cache, failing)
          IN  /\ dbSchemas' = r.rows
              /\ cache' = r.cache
              /\ scanReported' = failing \cup
                     {n \in FileNames : /\ Ext(n) = ".yaml"
                                        /\ files[n].kind # "absent"
                                        /\ ReadSchemaFile(files[n]).err # NoError}
    /\ mgrState' = "Running"
    /\ UNCHANGED <<pc, files, events, load, fsOps, driver, logTable, call,
                   schemaVars, coerceVars, metaVars>>

\* Manager.Stop: cancel the context and close the watcher; the events not yet
\* received are lost with the closed channel.
Stop ==
    /\ mgrState = "Running"
    /\ mgrState' = "Stopped"
    /\ events' = <<>>
    /\ UNCHANGED <<pc, files, cache, load, fsOps, scanReported, storeVars, schemaVars, coerceVars, metaVars>>

\* Manager.Start on a stopped Manager: the context is cancelled, so
\* storage.CreateSchema fails for every file of the scan and loadSchema
\* returns before it touches the cache; watcher.Add fails on the closed
\* watcher, and Start returns the error before it starts a goroutine.
StartStopped ==
    /\ mgrState = "Stopped"
    /\ UNCHANGED vars

\* A process creates or rewrites a file of the directory.
WriteFile ==
    /\ fsOps < MaxFsOps
    /\ \E name \in FileNames : \E content \in WritableContents(name) :
          /\ files' = [files EXCEPT ![name] = content]
          /\ events' = Notify(name, IF files[name].kind = "absent" THEN "CREATE" ELSE "WRITE")
    /\ fsOps' = fsOps + 1
    /\ UNCHANGED <<pc, mgrState, cache, load, scanReported, storeVars, schemaVars, coerceVars, metaVars>>

\* A process removes a file of the directory.
RemoveFile ==
    /\ fsOps < MaxFsOps
    /\ \E name \in FileNames :
          /\ files[name].kind # "absent"
          /\ files' = [files EXCEPT ![name] = Absent]
          /\ events' = Notify(name, "REMOVE")
    /\ fsOps' = fsOps + 1
    /\ UNCHANGED <<pc, mgrState, cache, load, scanReported, storeVars, schemaVars, coerceVars, metaVars>>

\* watchChanges receives the next event.  A file that is no .yaml file is
\* ignored.  Create or Write: loadSchema starts, reads the file and parses
\* it.  Remove: a cache entry whose schema maps to the file name is deleted.
WatchReceive ==
    /\ mgrState = "Running"
    /\ load.stage \in {"idle", "done"}
    /\ events # <<>>
    /\ events' = Tail(events)
    /\ LET event == Head(events)
           r     == ReadSchemaFile(files[event.name])
           keys  == {k \in DOMAIN cache : FileNameOf(cache[k]) = event.name}
       IN  IF Ext(event.name) # ".yaml" THEN UNCHANGED <<load, cache>>
           ELSE IF event.op \in {"CREATE", "WRITE"}
           THEN /\ load' = IF r.err # NoError THEN Load("done", event.name, EmptySchema, r.err)
                           ELSE Load("parsed", event.name, r.schema, NoError)
                /\ cache' = cache
           ELSE /\ load' = load
                /\ IF keys = {} THEN cache' = cache
                   ELSE \E k \in keys : cache' = CacheDelete(cache, k)
    /\ UNCHANGED <<pc, mgrState, files, fsOps, scanReported, storeVars, schemaVars, coerceVars, metaVars>>

\* loadSchema calls storage.CreateSchema with the context of the Manager; on
\* an error it returns, and watchChanges prints the error.  After Stop the
\* context is cancelled and the call fails.
LoadPersist ==
    /\ load.stage = "parsed"
    /\ \E ok \in (IF mgrState = "Stopped" THEN {FALSE} ELSE BOOLEAN) :
          IF ok
          THEN /\ dbSchemas' = UpsertSchema(dbSchemas, load.schema)
               /\ load' = [load EXCEPT !.stage = "persisted"]
          ELSE /\ dbSchemas' = dbSchemas
               /\ load' = [load EXCEPT !.stage = "done", !.err = <<"storage error">>]
    /\ UNCHANGED <<pc, mgrState, files, events, cache, fsOps, scanReported, driver, logTable, call,
                   schemaVars, coerceVars, metaVars>>

\* loadSchema stores the schema in the cache under the lock and returns.
LoadCache ==
    /\ load.stage = "persisted"
    /\ cache' = CacheStore(cache, load.schema)
    /\ load' = [load EXCEPT !.stage = "done"]
    /\ UNCHANGED <<pc, mgrState, files, events, fsOps, scanReported, storeVars, schemaVars, coerceVars, metaVars>>

\* NewManager, over a directory that holds no file or one schema file.
InitManager ==
    /\ pc = "manager"
    /\ mgrState = "Uninitialized"
    /\ \E content \in {Absent, SchemaFile("d1"), ScalarFile} :
          files = [n \in FileNames |-> IF n = <<"p_t", ".yaml">> THEN content ELSE Absent]
    /\ events = <<>>
    /\ cache = EmptyCache
    /\ load = NoLoad
    /\ fsOps = 0
    /\ scanReported = {}
    /\ MetaIdle
    /\ driver = "postgres"
    /\ dbSchemas = {}
    /\ logTable = <<>>
    /\ call = Unset
    /\ SchemaIdle
    /\ CoerceIdle

NextManager ==
    \/ Start \/ Stop \/ StartStopped
    \/ WriteFile \/ RemoveFile \/ WatchReceive \/ LoadPersist \/ LoadCache

SpecManager == InitManager /\ [][NextManager]_vars

\* The watch goroutine keeps running: it receives the next event and carries
\* a load it has begun to its end.
WatchFairness ==
    WF_vars(WatchReceive) /\ WF_vars(LoadPersist) /\ WF_vars(LoadCache)

SpecManagerLive == SpecManager /\ WatchFairness

\* ---- Claim C10 ----

SchemaFileNames == {n \in FileNames : Ext(n) = ".yaml"}

ParseableContents(name) ==
    {c \in WritableContents(name) : ReadSchemaFile(c).err = NoError}

\* A Create or Write event of the file waits in the watcher's channel.
WritePending(name) ==
    \E i \in 1..Len(events) : events[i].name = name /\ events[i].op \in {"CREATE", "WRITE"}

\* The backend and the cache both return the schema of the content.
Loaded(content) ==
    LET s == ReadSchemaFile(content).schema
    IN  /\ s \in GetSchema(s.project, s.table)
        /\ ManagerGetSchema(s.project, s.table) = [err |-> NoError, schema |-> s]

\* The file is no longer what was written, or the Manager has been stopped.
Superseded(name, content) == mgrState # "Running" \/ files[name] # content

ProcessesRemove(name) ==
    /\ mgrState = "Running" /\ mgrState' = "Running"
    /\ events # <<>>
    /\ Head(events) = [name |-> name, op |-> "REMOVE"]
    /\ events' = Tail(events)

\* The cache holds the schema the watch goroutine loaded from the file.
LoadedFrom(name) ==
    /\ load.stage = "done" /\ load.err = NoError /\ load.file = name
    /\ ManagerGetSchema(load.schema.project, load.schema.table)
          = [err |-> NoError, schema |-> load.schema]

\* The cache keys whose schema the Remove case maps to the file name.
KeysNamed(c, name) == {k \in DOMAIN c : FileNameOf(c[k]) = name}

\* C11: for every schema file from which the Manager loaded a schema (p,t),
\* once the file is deleted and the removal event has been processed,
\* Manager.GetSchema(p,t) returns a not-found error.
C11_RemovedFileNotFound ==
    [][\A name \in SchemaFileNames :
          (ProcessesRemove(name) /\ LoadedFrom(name))
             => Key(load.schema) \notin DOMAIN cache']_vars

\* C11, amended: for a cached schema (p,t) whose file name is p_t.yaml, the
\* name watchChanges maps the schema to, and which is the only cached schema
\* mapped to that name: once the removal event of p_t.yaml has been processed,
\* Manager.GetSchema(p,t) returns a not-found error.  A cached schema that is
\* mapped to another name than the removed file's stays in the cache, the one
\* loaded from that file included.
C11_RemovedNamedFileNotFound ==
    [][\A name \in SchemaFileNames :
          ProcessesRemove(name)
             => \A k \in DOMAIN cache :
                   /\ (KeysNamed(cache, name) = {k}) => k \notin DOMAIN cache'
                   /\ (k \notin KeysNamed(cache, name))
                         => (k \in DOMAIN cache' /\ cache'[k] = cache[k])]_vars

\* The watch goroutine loaded p_t.yaml, the file was removed and the event
\* processed: the cache has no schema (p,t).
C11_Witness ==
    /\ mgrState = "Running"
    /\ load.stage = "done" /\ load.err = NoError /\ load.file = <<"p_t", ".yaml">>
    /\ files[<<"p_t", ".yaml">>] = Absent
    /\ events = <<>>
    /\ ManagerGetSchema("p", "t").err # NoError

C14_OnlyValidSchemasKept ==
    /\ \A s \in dbSchemas : Validate(s) = NoError
    /\ \A s \in ManagerListSchemas : Validate(s) = NoError

\* Both dup.yaml and p_t.yaml hold a schema of the same (project, table).
BothDefine ==
    LET a == ReadSchemaFile(files[<<"dup", ".yaml">>])
        b == ReadSchemaFile(files[<<"p_t", ".yaml">>])
    IN  a.err = NoError /\ b.err = NoError /\ Key(a.schema) = Key(b.schema)

C16_StopDiscardsCache ==
    mgrState = "Stopped"
       => /\ ManagerListSchemas = {}
          /\ \A p \in {"p"}, t \in {"t"} : ManagerGetSchema(p, t).err # NoError

(***************************************************************************)
(* The API handler insertLog: deserializeLogEntry, then storage.InsertLog. *)
(* rawData, a Go map, is the sequence of its <<name, value>> entries in    *)
(* the order `range rawData` yields them, which the runtime chooses.       *)
(***************************************************************************)
\* The Go string of a value made by Text.
TextOf(value) == IF Val(value) = <<>> THEN "" ELSE Val(value)[1]

\* rawData[name].(string): the value and whether the assertion holds.
StringMember(rawData, name) ==
    LET hits == SelectSeq(rawData, LAMBDA e : e[1] = name /\ Kind(e[2]) = "string")
    IN  IF hits = <<>> THEN [ok |-> FALSE, v |-> ""]
        ELSE [ok |-> TRUE, v |-> TextOf(hits[1][2])]

\* rawData after the basic members found as strings have been deleted.
DeleteBasic(rawData) ==
    SelectSeq(rawData, LAMBDA e : ~(e[1] \in {"level", "message", "timestamp"}
                                     /\ Kind(e[2]) = "string"))

\* The first field of the schema named `name`, or 0.
FieldIndex(s, name) ==
    LET hits == {i \in 1..Len(s.fields) : s.fields[i].name = name}
    IN  IF hits = {} THEN 0 ELSE CHOOSE i \in hits : \A j \in hits : i <= j

\* m[k] = v on a map[string]interface{}.
MapStore(m, k, v) == [n \in DOMAIN m \cup {k} |-> IF n = k THEN v ELSE m[n]]

\* restFields[name] = value on the map held in a field value.
RestStore(mapValue, name, value) ==
    LET entries == Val(mapValue)
        keys    == {entries[i][1] : i \in 1..Len(entries)} \cup {name}
        m       == [n \in keys |->
                      IF n = name THEN value
                      ELSE entries[CHOOSE i \in 1..Len(entries) : entries[i][1] = n][2]]
    IN  GoMap(SortedEntries(m, keys, 1))

\* log.Fields after an entry of rawData that no schema field is named after.
storeUndeclared(s, fields, name, value) ==
    LET r == RestFieldIndex(s)
    IN  IF r = 0 THEN fields
        ELSE IF s.fields[r].name \in DOMAIN fields /\ Kind(fields[s.fields[r].name]) = "map"
        THEN MapStore(fields, s.fields[r].name,
                      RestStore(fields[s.fields[r].name], name, value))
        ELSE MapStore(fields, s.fields[r].name, GoMap(<< <<name, value>> >>))

RECURSIVE deserializeFields(_, _, _, _)
\* The loop after a declared entry has been converted with result conv.
fieldConverted(s, rawData, i, fields, conv) ==
    IF conv.err # NoError
    THEN [err |-> <<"invalid field value for", rawData[i][1]>> \o conv.err, fields |-> fields]
    ELSE deserializeFields(s, rawData, i + 1, MapStore(fields, rawData[i][1], conv.val))

\* The loop of deserializeLogEntry over rawData, from entry i on.
deserializeFields(s, rawData, i, fields) ==
    IF i > Len(rawData) THEN [err |-> NoError, fields |-> fields]
    ELSE IF FieldIndex(s, rawData[i][1]) # 0
    THEN fieldConverted(s, rawData, i, fields,
                        convertFieldValue(rawData[i][2],
                                          s.fields[FieldIndex(s, rawData[i][1])].type))
    ELSE deserializeFields(s, rawData, i + 1,
                           storeUndeclared(s, fields, rawData[i][1], rawData[i][2]))

\* The end of deserializeLogEntry: ValidateLogEntry on the log built.
deserialized(s, level, message, d) ==
    IF d.err # NoError THEN [err |-> d.err, entry |-> LogEntry("p", "t", "", "", TRUE, EmptyFields)]
    ELSE ValidateLogEntry(s, LogEntry("p", "t", level, message, TRUE, d.fields))

\* deserializeLogEntry for project "p", table "t", with the schema found.
\* The timestamp is time.Now() or the one parsed, never zero.
deserializeLogEntry(found, rawData) ==
    IF found = {}
    THEN [err |-> <<"schema not found">>, entry |-> LogEntry("p", "t", "", "", TRUE, EmptyFields)]
    ELSE deserialized(CHOOSE x \in found : TRUE,
                      StringMember(rawData, "level").v, StringMember(rawData, "message").v,
                      deserializeFields(CHOOSE x \in found : TRUE, DeleteBasic(rawData), 1,
                                        EmptyFields))

\* The schemas the handler is run against.
ApiSchemas ==
    { Schema("p", "t", "", <<StoreField("user_id", FieldTypeString, FALSE),
                             StoreField("extra", FieldTypeRest, FALSE)>>),
      Schema("p", "t", "", <<StoreField("user_id", FieldTypeString, TRUE)>>) }

\* The value a request body gives each member.
RawMember(name) ==
    CASE name = "level"   -> Text("INFO")
      [] name = "message" -> Text("m")
      [] name = "user_id" -> U1
      [] name = "count"   -> GoFloat64(Float(5, 0))
      [] name = "x"       -> GoBool(TRUE)
      [] OTHER            -> GoString(<<"e">>)

RECURSIVE Orders(_)
\* Every order in which the members named in S can be ranged over.
Orders(S) ==
    IF S = {} THEN {<<>>}
    ELSE UNION {{<< <<n, RawMember(n)>> >> \o q : q \in Orders(S \ {n})} : n \in S}

\* The request bodies: message, level or not, and any of the other members
\* in every order (the basic members are deleted before the loop, so their
\* place in the order plays no part).
RawDataInputs ==
    {basic \o others :
        basic \in Orders({"message"}) \cup Orders({"level", "message"}),
        others \in UNION {Orders(S) : S \in SUBSET {"user_id", "count", "x", "extra"}}}

\* The outcome of the handler after deserializeLogEntry returned d.
insertLogOutcome(d, rawData, dbFail, commitOK, discards) ==
    IF d.err # NoError
    THEN [status |-> 400, err |-> d.err, rows |-> logTable]
    ELSE LET r == batchInsert(driver, logTable, GetSchema("p", "t"), <<d.entry>>,
                              dbFail, commitOK, discards)
         IN  [status |-> IF r.err # NoError THEN 500 ELSE 201, err |-> r.err, rows |-> r.rows]

\* POST /logs/p/t
insertLog ==
    /\ pc = "idle"
    /\ pc' = "called"
    /\ \E rawData \in RawDataInputs, dbFail \in SUBSET {1}, commitOK \in BOOLEAN,
          discards \in BOOLEAN :
          LET done(d, o) ==
                  /\ logTable' = o.rows
                  /\ call' = [op |-> "insertLog", rawData |-> rawData, log |-> d,
                              status |-> o.status, err |-> o.err, before |-> logTable]
              handle(d) == done(d, insertLogOutcome(d, rawData, dbFail, commitOK, discards))
          IN  handle(deserializeLogEntry(GetSchema("p", "t"), rawData))
    /\ UNCHANGED <<driver, dbSchemas, schemaVars, coerceVars, mgrVars, metaVars>>

InitApi ==
    /\ pc = "idle"
    /\ driver \in Drivers
    /\ dbSchemas \in {{}} \cup {{s} : s \in ApiSchemas}
    /\ logTable = <<>>
    /\ call = Unset
    /\ SchemaIdle
    /\ CoerceIdle
    /\ MgrIdle
    /\ MetaIdle

NextApi == insertLog

SpecApi == InitApi /\ [][NextApi]_vars

\* ---- Claim C17 ----

\* The names of a request body that no schema field is named after, the
\* basic members apart.
Undeclared(s, rawData) ==
    {rawData[i][1] : i \in 1..Len(rawData)}
       \ ({s.fields[j].name : j \in 1..Len(s.fields)} \cup {"level", "message", "timestamp"})

\* The entries of the map stored under the catch-all field of the record.
RestEntries(s, entry) ==
    LET c == s.fields[RestFieldIndex(s)].name
    IN  IF c \in DOMAIN entry.fields /\ Kind(entry.fields[c]) = "map"
        THEN {Val(entry.fields[c])[i] : i \in 1..Len(Val(entry.fields[c]))}
        ELSE {}

\* C17: for a schema that declares a catch-all field c, after a record has
\* been deserialized and validated, every input field whose name is not
\* declared in the schema is present, with its value, inside the map stored
\* under c, for every input and every order of the input fields.
C17_UndeclaredFieldsInRest ==
    (pc = "called" /\ call.log.err = NoError)
       => \A s \in dbSchemas :
             RestFieldIndex(s) # 0
                => \A n \in Undeclared(s, call.rawData) :
                      <<n, RawMember(n)>> \in RestEntries(s, call.log.entry)

(***************************************************************************)
(* Schema metadata and table materialization: the drivers' CreateSchema,   *)
(* createLogTable, GetSchema and ListSchemas (part_007, mysql.go,          *)
(* part_006), called by the API handlers createSchema and updateSchema     *)
(* (part_005:83-143) and by Manager.loadSchema (part_008:102-133).         *)
(* UpdateSchema is CreateSchema in the three drivers.                      *)
(***************************************************************************)
\* time.Time{}: the CreatedAt of a schema that carries none.
NoTime == 0

\* The largest reading of the clock.
MaxClock == 2

\* The most calls of CreateSchema that succeed in a behaviour.
MaxWrites == 2

\* A models.Schema with its CreatedAt and UpdatedAt.
Stamped(s, created, updated) ==
    [project |-> s.project, table |-> s.table, description |-> s.description,
     fields |-> s.fields, created_at |-> created, updated_at |-> updated]

\* The definition a stamped schema or a metadata row carries.
Definition(row) == Schema(row.project, row.table, row.description, row.fields)

SameKey(a, b) == a.project = b.project /\ a.table = b.table

getPostgresType(fieldType) ==
    CASE fieldType = FieldTypeString   -> "TEXT"
      [] fieldType = FieldTypeInt      -> "BIGINT"
      [] fieldType = FieldTypeFloat    -> "DOUBLE PRECISION"
      [] fieldType = FieldTypeBool     -> "BOOLEAN"
      [] fieldType = FieldTypeDateTime -> "TIMESTAMP WITH TIME ZONE"
      [] fieldType = FieldTypeTime     -> "TIME"
      [] fieldType = FieldTypeDuration -> "INTERVAL"
      [] fieldType \in {FieldTypeJSON, FieldTypeRest} -> "JSONB"
      [] OTHER -> "TEXT"

getMySQLType(fieldType) ==
    CASE fieldType = FieldTypeString   -> "TEXT"
      [] fieldType = FieldTypeInt      -> "BIGINT"
      [] fieldType = FieldTypeFloat    -> "DOUBLE"
      [] fieldType = FieldTypeBool     -> "BOOLEAN"
      [] fieldType = FieldTypeDateTime -> "TIMESTAMP"
      [] fieldType = FieldTypeTime     -> "TIME"
      [] fieldType = FieldTypeDuration -> "VARCHAR(100)"
      [] fieldType = FieldTypeJSON     -> "JSON"
      [] OTHER -> "TEXT"

getClickHouseType(fieldType) ==
    CASE fieldType = FieldTypeString   -> "String"
      [] fieldType = FieldTypeInt      -> "Int64"
      [] fieldType = FieldTypeFloat    -> "Float64"
      [] fieldType = FieldTypeBool     -> "UInt8"
      [] fieldType = FieldTypeDateTime -> "DateTime64(3)"
      [] fieldType = FieldTypeTime     -> "String"
      [] fieldType = FieldTypeDuration -> "Int64"
      [] fieldType = FieldTypeJSON     -> "String"
      [] OTHER -> "String"

ColumnType(drv, fieldType) ==
    CASE drv = "postgres" -> getPostgresType(fieldType)
      [] drv = "mysql"    -> getMySQLType(fieldType)
      [] OTHER            -> getClickHouseType(fieldType)

\* tableName of createLogTable.
LogTableName(drv, s) ==
    IF drv = "postgres" THEN s.project \o "_" \o s.table
    ELSE "logs_" \o s.project \o "_" \o s.table

\* The columns createLogTable starts with.
BaseColumns(drv) ==
    CASE drv = "postgres" ->
            { <<"id", "SERIAL PRIMARY KEY">>, <<"project", "VARCHAR(255)">>,
              <<"table_name", "VARCHAR(255)">>,
              <<"timestamp", "TIMESTAMP WITH TIME ZONE">> }
      [] drv = "mysql" ->
            { <<"id", "VARCHAR(255) PRIMARY KEY">>, <<"project", "VARCHAR(255)">>,
              <<"table_name", "VARCHAR(255)">>, <<"timestamp", "TIMESTAMP">> }
      [] OTHER ->
            { <<"id", "String">>, <<"project", "String">>,
              <<"table_name", "String">>, <<"timestamp", "DateTime64(3)">> }

\* defaultFields of the postgres createLogTable: added unless the schema
\* declares a field of the name.
DefaultColumns(drv, s) ==
    IF drv # "postgres" THEN {}
    ELSE { c \in { <<"level", "VARCHAR(50)">>, <<"message", "TEXT">>, <<"ip", "VARCHAR(45)">> } :
             \A i \in DOMAIN s.fields : s.fields[i].name # c[1] }

\* One column per declared field.
FieldColumns(drv, s) ==
    { <<s.fields[i].name, ColumnType(drv, s.fields[i].type)>> : i \in DOMAIN s.fields }

LogTableColumns(drv, s) == BaseColumns(drv) \cup DefaultColumns(drv, s) \cup FieldColumns(drv, s)

NoTables == [n \in {} |-> {}]

\* CREATE TABLE IF NOT EXISTS: a table of the name is left as it is.
CreateTableIfNotExists(tbls, name, columns) ==
    IF name \in DOMAIN tbls THEN tbls
    ELSE [n \in DOMAIN tbls \cup {name} |-> IF n = name THEN columns ELSE tbls[n]]

\* How often the column list of createLogTable names a column.
ColumnCount(drv, s, name) ==
    Cardinality({c \in BaseColumns(drv) : c[1] = name})
      + Cardinality({c \in DefaultColumns(drv, s) : c[1] = name})
      + Cardinality({i \in DOMAIN s.fields : s.fields[i].name = name})

ColumnNames(drv, s) == {c[1] : c \in LogTableColumns(drv, s)}

\* The statement names a column twice: the database rejects it.
DuplicateColumn(drv, s) == \E name \in ColumnNames(drv, s) : ColumnCount(drv, s, name) > 1

\* createLogTable: the statement fails with the database, or creates the
\* table if there is none of the name.  The schemas here index no field, so
\* the index and view statements that follow are not run.
createLogTable(drv, tbls, s, fault) ==
    IF fault = "table" \/ (LogTableName(drv, s) \notin DOMAIN tbls /\ DuplicateColumn(drv, s))
    THEN [err |-> <<"create log table failed">>, tables |-> tbls]
    ELSE [err |-> NoError,
          tables |-> CreateTableIfNotExists(tbls, LogTableName(drv, s), LogTableColumns(drv, s))]

\* The row of the key in the metadata table, 0 if there is none.
RowIndex(rows, s) ==
    IF \E i \in DOMAIN rows : SameKey(rows[i], s)
    THEN CHOOSE i \in DOMAIN rows : SameKey(rows[i], s)
    ELSE 0

\* ON CONFLICT (project, table_name) DO UPDATE / ON DUPLICATE KEY UPDATE:
\* description, fields and updated_at are replaced, created_at is kept.
UpdateRow(rows, i, s) ==
    IF i = 0 THEN Append(rows, s)
    ELSE [rows EXCEPT ![i] = [@ EXCEPT !.description = s.description,
                                       !.fields = s.fields,
                                       !.updated_at = s.updated_at]]

\* The INSERT of CreateSchema: an upsert in postgres and mysql, a new row in
\* clickhouse.
SaveSchema(drv, rows, s) ==
    IF drv = "clickhouse" THEN Append(rows, s) ELSE UpdateRow(rows, RowIndex(rows, s), s)

\* The outcome of CreateSchema once createLogTable has returned t.
SchemaSaved(drv, rows, tbls, s, fault, t) ==
    CASE t.err # NoError -> [err |-> t.err, meta |-> rows, tables |-> tbls]
      [] fault = "save"  -> [err |-> <<"save schema failed">>, meta |-> rows, tables |-> t.tables]
      [] OTHER           -> [err |-> NoError, meta |-> SaveSchema(drv, rows, s), tables |-> t.tables]

\* CreateSchema (and UpdateSchema) of the drivers.
CreateSchema(drv, rows, tbls, s, fault) ==
    SchemaSaved(drv, rows, tbls, s, fault, createLogTable(drv, tbls, s, fault))

\* GetSchema of the drivers: the row of the key; in clickhouse, a row of the
\* key that no row of the key follows in ORDER BY updated_at DESC.
GetSchemaRows(drv, rows, project, table) ==
    { rows[i] : i \in { i \in DOMAIN rows :
                          /\ rows[i].project = project
                          /\ rows[i].table = table
                          /\ drv = "clickhouse" =>
                                \A j \in DOMAIN rows :
                                    SameKey(rows[j], rows[i])
                                       => rows[j].updated_at <= rows[i].updated_at } }

\* ListSchemas of the drivers: every row; in clickhouse, every group of
\* equal rows.
ListSchemasRows(drv, rows) == { rows[i] : i \in DOMAIN rows }

\* A merge of the ReplacingMergeTree(updated_at) table can drop row i: a row
\* of the same key has a later updated_at, or the same and was inserted later.
Replaced(rows, i) ==
    \E j \in DOMAIN rows :
        /\ j # i
        /\ SameKey(rows[j], rows[i])
        /\ \/ rows[j].updated_at > rows[i].updated_at
           \/ rows[j].updated_at = rows[i].updated_at /\ j > i

Without(rows, i) == [k \in 1..(Len(rows) - 1) |-> IF k < i THEN rows[k] ELSE rows[k + 1]]

\* DELETE FROM schemas WHERE project = ? AND table_name = ?
DeleteRows(rows, project, table) ==
    SelectSeq(rows, LAMBDA r : ~(r.project = project /\ r.table = table))

\* DROP TABLE IF EXISTS
DropTableIfExists(tbls, name) == [n \in DOMAIN tbls \ {name} |-> tbls[n]]

\* DeleteSchema of the drivers: in a transaction, delete the rows of the key,
\* fail if none was deleted, drop the log table, commit.  postgres rolls all
\* of it back on an error.  In mysql and clickhouse the DROP TABLE is not
\* undone by the rollback, and whether the DELETE before it is undone depends
\* on the database: `undone` is either.
DeleteSchema(drv, rows, tbls, project, table, fault, undone) ==
    LET name == LogTableName(drv, [project |-> project, table |-> table])
        left == IF undone THEN rows ELSE DeleteRows(rows, project, table)
    IN  CASE fault = "delete" ->
                [err |-> <<"delete schema failed">>, meta |-> rows, tables |-> tbls]
          [] DeleteRows(rows, project, table) = rows ->
                [err |-> <<"schema not found">>, meta |-> rows, tables |-> tbls]
          [] fault = "drop" ->
                [err |-> <<"drop log table failed">>,
                 meta |-> IF drv = "postgres" THEN rows ELSE left, tables |-> tbls]
          [] fault = "commit" ->
                [err |-> <<"commit failed">>,
                 meta |-> IF drv = "postgres" THEN rows ELSE left,
                 tables |-> IF drv = "postgres" THEN tbls ELSE DropTableIfExists(tbls, name)]
          [] OTHER ->
                [err |-> NoError, meta |-> DeleteRows(rows, project, table),
                 tables |-> DropTableIfExists(tbls, name)]

(***************************************************************************)
(* The schemas and faults the calls are made with.                         *)
(***************************************************************************)
MetaSchemas ==
    { Schema("p", "t", "d1", <<StoreField("user_id", FieldTypeString, FALSE)>>),
      Schema("p", "t", "d2", <<StoreField("user_id", FieldTypeInt, FALSE)>>),
      Schema("p", "t", "d1", <<StoreField("user_id", FieldTypeString, FALSE),
                               StoreField("level", FieldTypeString, FALSE)>>),
      Schema("a", "b_c", "d1", <<StoreField("id", FieldTypeString, FALSE)>>),
      Schema("a_b", "c", "d1", <<StoreField("user_id", FieldTypeString, FALSE)>>),
      Schema("p", "", "d1", <<StoreField("user_id", FieldTypeString, FALSE)>>) }

\* The statement of CreateSchema the database fails, if any.
Faults == {"none", "table", "save"}

\* The call recorded by a handler: the definition it was made with and the
\* error it returned.
MetaCall(op, s, err) == [op |-> op, schema |-> Definition(s), err |-> err]

\* The storage call of a handler has returned r for the schema s.
Written(op, s, r) ==
    /\ meta' = r.meta
    /\ tables' = r.tables
    /\ writes' = IF r.err = NoError THEN Append(writes, s) ELSE writes
    /\ call' = MetaCall(op, s, r.err)

\* The handler returned before its storage call.
Refused(op, s, err) ==
    /\ call' = MetaCall(op, s, err)
    /\ UNCHANGED <<meta, tables, writes>>

\* Server.createSchema: stamp both times with now, validate, CreateSchema.
createSchemaAt ==
    /\ pc = "meta"
    /\ Len(writes) < MaxWrites
    /\ \E body \in MetaSchemas, fault \in Faults :
          LET s == Stamped(body, clock, clock)
              handled(verror) ==
                  IF verror # NoError THEN Refused("createSchema", s, verror)
                  ELSE Written("createSchema", s, CreateSchema(driver, meta, tables, s, fault))
          IN  handled(Validate(body))
    /\ UNCHANGED <<pc, clock, driver, dbSchemas, logTable, schemaVars, coerceVars, mgrVars>>

\* Server.updateSchema: the path must name the body's schema; UpdatedAt is
\* now, CreatedAt is what the body carries; validate, UpdateSchema.
updateSchemaAt ==
    /\ pc = "meta"
    /\ Len(writes) < MaxWrites
    /\ \E body \in MetaSchemas, pathTable \in {"t", "u"}, fault \in Faults,
          bodyCreated \in {NoTime} \cup {r.created_at : r \in GetSchemaRows(driver, meta, "p", "t")} :
          LET s == Stamped(body, bodyCreated, clock)
              handled(verror) ==
                  CASE body.table # pathTable ->
                          Refused("updateSchema", s, <<"project and table in path must match body">>)
                    [] verror # NoError -> Refused("updateSchema", s, verror)
                    [] OTHER ->
                          Written("updateSchema", s, CreateSchema(driver, meta, tables, s, fault))
          IN  handled(Validate(body))
    /\ UNCHANGED <<pc, clock, driver, dbSchemas, logTable, schemaVars, coerceVars, mgrVars>>

\* The schemas the files of the directory parse to: here files that hold a
\* schema Validate accepts.
FileSchemas == {s \in MetaSchemas : Validate(s) = NoError}

\* Manager.loadSchema of a file that parses to `parsed`: CreatedAt is now
\* unless the file carries one, UpdatedAt is now; CreateSchema; on success
\* the schema is stored in the cache.
loadSchemaAt ==
    /\ pc = "meta"
    /\ Len(writes) < MaxWrites
    /\ \E parsed \in FileSchemas, fault \in Faults, fileCreated \in {NoTime, NoTime + 1} :
          LET s == Stamped(parsed, IF fileCreated = NoTime THEN clock ELSE fileCreated, clock)
              loaded(r) ==
                  /\ Written("loadSchema", s, r)
                  /\ cache' = IF r.err = NoError THEN CacheStore(cache, s) ELSE cache
          IN  loaded(CreateSchema(driver, meta, tables, s, fault))
    /\ UNCHANGED <<pc, clock, driver, dbSchemas, logTable, schemaVars, coerceVars,
                   mgrState, files, events, load, fsOps, scanReported>>

\* The entry of `writes` for a DeleteSchema that succeeded.
Deleted(project, table) == Stamped(Schema(project, table, "", <<>>), NoTime, NoTime)

\* Server.deleteSchema: DeleteSchema of the path's project and table.
deleteSchemaAt ==
    /\ pc = "meta"
    /\ Len(writes) < MaxWrites
    /\ \E key \in {<<s.project, s.table>> : s \in MetaSchemas},
          fault \in {"none", "delete", "drop", "commit"}, undone \in BOOLEAN :
          LET deleted(r) ==
                  /\ meta' = r.meta
                  /\ tables' = r.tables
                  /\ writes' = IF r.err = NoError
                               THEN Append(writes, Deleted(key[1], key[2])) ELSE writes
                  /\ call' = [op |-> "deleteSchema",
                              schema |-> Schema(key[1], key[2], "", <<>>), err |-> r.err]
          IN  deleted(DeleteSchema(driver, meta, tables, key[1], key[2], fault, undone))
    /\ UNCHANGED <<pc, clock, driver, dbSchemas, logTable, schemaVars, coerceVars, mgrVars>>

\* time.Now() moves on.
Tick ==
    /\ pc = "meta"
    /\ clock < MaxClock
    /\ clock' = clock + 1
    /\ UNCHANGED <<pc, meta, tables, writes, storeVars, schemaVars, coerceVars, mgrVars>>

\* clickhouse merges two parts of the schemas table.
MergeParts ==
    /\ pc = "meta"
    /\ driver = "clickhouse"
    /\ \E i \in DOMAIN meta :
          /\ Replaced(meta, i)
          /\ meta' = Without(meta, i)
    /\ UNCHANGED <<pc, clock, tables, writes, storeVars, schemaVars, coerceVars, mgrVars>>

InitMeta ==
    /\ pc = "meta"
    /\ driver \in Drivers
    /\ dbSchemas = {}
    /\ logTable = <<>>
    /\ clock = NoTime + 1
    /\ meta = <<>>
    /\ tables = NoTables
    /\ writes = <<>>
    /\ call = [op |-> "none", schema |-> EmptySchema, err |-> NoError]
    /\ mgrState = "Running"
    /\ files = Unset
    /\ events = <<>>
    /\ cache = EmptyCache
    /\ load = Unset
    /\ fsOps = 0
    /\ scanReported = {}
    /\ SchemaIdle
    /\ CoerceIdle

NextMeta ==
    createSchemaAt \/ updateSchemaAt \/ loadSchemaAt \/ deleteSchemaAt \/ Tick \/ MergeParts

SpecMeta == InitMeta /\ [][NextMeta]_vars

(***************************************************************************)
(* C18-C20: the metadata and the table after creations and updates.        *)
(***************************************************************************)
\* The (project, table) pairs the calls are made with.
MetaKeys == {<<s.project, s.table>> : s \in MetaSchemas}

\* The calls a driver accepted for a key, oldest first.
CallsOf(key) == SelectSeq(writes, LAMBDA s : s.project = key[1] /\ s.table = key[2])

\* The last DeleteSchema among them, 0 if there is none.
LastDeleted(calls) ==
    IF \E i \in DOMAIN calls : calls[i].fields = <<>>
    THEN CHOOSE i \in DOMAIN calls :
            /\ calls[i].fields = <<>>
            /\ \A j \in DOMAIN calls : calls[j].fields = <<>> => j <= i
    ELSE 0

\* The schemas a driver accepted for a key since the key was last deleted,
\* oldest first.
WritesOf(key) == SubSeq(CallsOf(key), LastDeleted(CallsOf(key)) + 1, Len(CallsOf(key)))

\* The created_at of the first creation and the updated_at of the latest update.
KeepsTimes(s, accepted) ==
    /\ s.created_at = accepted[1].created_at
    /\ s.updated_at = accepted[Len(accepted)].updated_at

CacheKey(key) == key[1] \o ":" \o key[2]

\* C18: after any creations and updates of a key, by Manager loads or API
\* calls, the schema GetSchema returns and the schema in the Manager cache
\* carry the created_at of the first creation and the updated_at of the
\* latest update, in every driver.
C18_TimestampsKept ==
    pc = "meta" =>
        \A key \in MetaKeys :
            WritesOf(key) # <<>> =>
                /\ \A r \in GetSchemaRows(driver, meta, key[1], key[2]) :
                      KeepsTimes(r, WritesOf(key))
                /\ CacheKey(key) \in DOMAIN cache
                      => KeepsTimes(cache[CacheKey(key)], WritesOf(key))

\* The definition a driver accepted last for a key.
LatestDefinition(key) == Definition(WritesOf(key)[Len(WritesOf(key))])

\* The schemas of a key that ListSchemas returns.
Listed(key) ==
    {r \in ListSchemasRows(driver, meta) : r.project = key[1] /\ r.table = key[2]}

\* C19: after any calls of CreateSchema and UpdateSchema, GetSchema returns
\* the definition written last for the key, and ListSchemas returns exactly
\* one schema for the key, that definition, in clickhouse as in the others.
C19_LatestDefinitionOnly ==
    pc = "meta" =>
        \A key \in MetaKeys :
            WritesOf(key) # <<>> =>
                /\ \A r \in GetSchemaRows(driver, meta, key[1], key[2]) :
                      Definition(r) = LatestDefinition(key)
                /\ Cardinality(Listed(key)) = 1
                /\ \A r \in Listed(key) : Definition(r) = LatestDefinition(key)

\* The schema declares, for a column the table of its key has, a type the
\* column does not have.
ChangesType(s) ==
    /\ LogTableName(driver, s) \in DOMAIN tables
    /\ \E i \in DOMAIN s.fields :
          \E c \in tables[LogTableName(driver, s)] :
              /\ c[1] = s.fields[i].name
              /\ c[2] # ColumnType(driver, s.fields[i].type)

\* C20: an update, by UpdateSchema or by a Manager reload, that changes the
\* type of a field whose column exists returns an error and leaves the
\* metadata and the table as they were.
C20_TypeChangeRefused ==
    [][ ((updateSchemaAt \/ loadSchemaAt) /\ ChangesType(call'.schema))
            => (call'.err # NoError /\ meta' = meta /\ tables' = tables) ]_vars

(***************************************************************************)
(* C21-C24, C27: the tables against the metadata.                          *)
(***************************************************************************)
\* A call of CreateSchema or UpdateSchema, by a handler or the Manager.
SchemaWrite == createSchemaAt \/ updateSchemaAt \/ loadSchemaAt

\* The table of the schema has a column of the name of each field.
HasColumns(s) ==
    /\ LogTableName(driver, s) \in DOMAIN tables
    /\ \A i \in DOMAIN s.fields :
          \E c \in tables[LogTableName(driver, s)] : c[1] = s.fields[i].name

\* The persisted schema of each key has its columns.
PersistedHaveColumns ==
    \A key \in MetaKeys :
        \A r \in GetSchemaRows(driver, meta, key[1], key[2]) : HasColumns(r)

\* C21: after a successful CreateSchema or UpdateSchema the log table has a
\* column for every field of the persisted schema, and every column created
\* before is as it was.
C21_ColumnsFollowSchema ==
    [][ (SchemaWrite /\ call'.err = NoError)
            => /\ PersistedHaveColumns'
               /\ \A n \in DOMAIN tables : n \in DOMAIN tables' /\ tables[n] \subseteq tables'[n] ]_vars

\* The columns every log table is to have, and those a schema can replace.
FixedColumnNames == {"id", "project", "table_name", "timestamp"}

ImplicitColumnNames == {"level", "message", "ip"}

FieldNamesOf(s) == {s.fields[i].name : i \in DOMAIN s.fields}

\* C22: for a schema Validate accepts, in every driver, the column list of
\* createLogTable names each column once: the identifier, project,
\* table_name, timestamp, each of level, message and ip (the declared field
\* if the schema declares one of the name), and each declared field.
C22_EachColumnOnce ==
    (pc = "meta" /\ call.op \in {"createSchema", "updateSchema", "loadSchema"}
        /\ Validate(call.schema) = NoError) =>
        \A name \in FixedColumnNames \cup ImplicitColumnNames \cup FieldNamesOf(call.schema) :
            ColumnCount(driver, call.schema, name) = 1

\* C23: in every state CreateSchema, UpdateSchema and DeleteSchema calls
\* reach, failed calls included, the metadata has a row of a key exactly if
\* the log table of the key exists.
C23_RowIffTable ==
    pc = "meta" =>
        \A key \in MetaKeys :
            (DeleteRows(meta, key[1], key[2]) # meta)
                <=> (LogTableName(driver, [project |-> key[1], table |-> key[2]]) \in DOMAIN tables)

KeyOf(s) == <<s.project, s.table>>

\* The log table of a key: whether there is one, and its columns.
TableOf(tbls, key) ==
    LET name == LogTableName(driver, [project |-> key[1], table |-> key[2]]) IN
    IF name \in DOMAIN tbls THEN {tbls[name]} ELSE {}

\* C27: distinct keys have distinct log tables: a call for one key neither
\* creates nor changes nor drops the table of another key.
C27_TablesApart ==
    [][ (SchemaWrite \/ deleteSchemaAt)
            => \A key \in MetaKeys \ {KeyOf(call'.schema)} :
                  TableOf(tables', key) = TableOf(tables, key) ]_vars

\* C24: while the Manager runs and no load is in progress, every schema in
\* the cache is the schema the backend holds under its key, whatever calls
\* the API makes on the backend between the loads.
C24_CacheIsPersisted ==
    (pc = "meta" /\ mgrState = "Running") =>
        \A k \in DOMAIN cache :
            /\ GetSchemaRows(driver, meta, cache[k].project, cache[k].table) # {}
            /\ \A r \in GetSchemaRows(driver, meta, cache[k].project, cache[k].table) :
                  Definition(r) = Definition(cache[k])

\* The states of the Manager in the order of its life.
ManagerOrder == <<"Uninitialized", "Running", "Stopped">>

\* C25: the Manager only moves Uninitialized -> Running -> Stopped, and once
\* Manager.Stop has returned no step changes the cache or the schemas of the
\* backend: not a load that was in flight, not a queued event, not another
\* call of Start.
C25_StoppedIsFinal ==
    [][ /\ mgrState' # mgrState
            => \E i \in 1..2 : mgrState = ManagerOrder[i] /\ mgrState' = ManagerOrder[i + 1]
        /\ mgrState = "Stopped" => (cache' = cache /\ dbSchemas' = dbSchemas) ]_vars

\* The files still present whose content is the schema the cache holds.
DefiningFiles(s) ==
    {n \in SchemaFileNames :
        /\ files[n].kind # "absent"
        /\ ReadSchemaFile(files[n]).err = NoError
        /\ ReadSchemaFile(files[n]).schema = s}

\* C30: the Remove event of a schema file evicts at most the cache entry
\* whose schema was loaded from the removed file, and never an entry whose
\* defining file is still present.
C30_RemoveEvictsOwnEntry ==
    [][ \A name \in SchemaFileNames :
            (WatchReceive /\ ProcessesRemove(name))
                => \A k \in DOMAIN cache \ DOMAIN cache' : DefiningFiles(cache[k]) = {} ]_vars

\* The columns every log table has besides the declared ones.
ImplicitInsertColumns == {"project", "table_name", "timestamp"}

\* BatchInsertLogs issues the INSERT of record k of the call: the records up
\* to k pass ValidateLogEntry and the INSERTs before k succeeded.
InsertIssued(s, k) ==
    /\ \A j \in 1..k : ValidateLogEntry(s, call.logs[j]).err = NoError
    /\ \A j \in 1..(k - 1) :
          ExecInsert(driver, s, ValidateLogEntry(s, call.logs[j]).entry, j \in call.dbFail).err
              = NoError

\* C26: in every driver, each INSERT that BatchInsertLogs issues for a record
\* that passed validation names the implicit columns besides the declared
\* ones and binds exactly one value per named column, whether or not the
\* record has a value for each optional field.
C26_OneValuePerColumn ==
    pc = "called" =>
        \A s \in GetSchema("p", "t") : \A k \in 1..Len(call.logs) :
            InsertIssued(s, k) =>
                LET cols == Columns(driver, s)
                    vals == RowValues(driver, s, ValidateLogEntry(s, call.logs[k]).entry)
                IN  /\ ImplicitInsertColumns \subseteq {cols[i] : i \in 1..Len(cols)}
                    /\ Len(vals) = Len(cols)

\* C28: when BatchInsertLogs returns an error it has set the ID of no record
\* of the batch: a record carries an assigned identifier only if its row was
\* committed.
C28_NoIDOnError ==
    (pc = "called" /\ call.err # NoError) => call.ids = 0

\* C29: coercion and validation agree: whenever convertFieldValue succeeds
\* on a raw value for a field type, validateFieldValue accepts the converted
\* value for a field of that type.
C29_ConvertedIsValid ==
    (pc = "converted" /\ conv1.err = NoError)
        => validateFieldValue(ftype, conv1.val) = NoError

====
